---------------------------- MODULE Spec2Model ----------------------------
(***************************************************************************)
(* A model of the numeric core of rust-dl-from-scratch (chapter02):         *)
(*   - Matrix::dot / Matrix::add            (src/src/chapter02/matrix.rs)   *)
(*   - numerical_gradient                   (src/src/chapter02/grad.rs)     *)
(*   - sigmoid / softmax, both backends     (src/src/chapter02/activation.rs)*)
(*                                                                         *)
(* Three specifications share the variables: Spec (the Matrix operations), *)
(* SpecGrad (the finite-difference engine) and SpecAct (the activations).  *)
(* Each one leaves the other components' variables at their idle values.   *)
(*                                                                         *)
(* Numbers.  Matrix entries are integers: every integer used here is an    *)
(* f64 value and sums/products of them are exact in f64.                   *)
(* The gradient engine computes with the step H = 1e-4: there a scalar is  *)
(* a polynomial c0 + c1*H + c2*H^2 in H with integer coefficients, kept as *)
(* <<c0, c1, c2>>, and the quotient by 2.0*H is kept as a fraction, so the *)
(* arithmetic is that of the reals (f64 rounding is not modelled).         *)
(* The activations call exp(): there a finite result is a quotient of two  *)
(* sums of powers of e (bags of exponents), and the f64 effects that       *)
(* decide what sigmoid and softmax return are modelled: exp overflows to   *)
(* +inf and underflows to 0, inf/inf is NaN, and a term below half an ulp  *)
(* of the sum it is added to is absorbed.                                  *)
(***************************************************************************)
EXTENDS Integers, Sequences, FiniteSets, Bags, TLC

VARIABLES
    \* ---- Matrix operations -------------------------------------------
    self,      \* the receiver (&self)
    other,     \* the argument (&Matrix)
    op,        \* which method was called: "none" | "dot" | "add"
    pc,        \* "ready" | "dot_loop" | "returned" | "panicked"
    result,    \* the local `result` / the returned Matrix; NoMatrix if none
    t,         \* number of `+=` accumulations dot has performed so far
    \* ---- numerical_gradient -------------------------------------------
    x,         \* the point (&Array<f64, D>)
    x0,        \* the value x had when numerical_gradient was called
    f,         \* the closure F, by name
    grad,      \* the local `grad`
    p,         \* number of loop bodies of `for (i, _val) in x.indexed_iter()` done
    calls,     \* the arrays handed to f so far, in call order
    visited,   \* the indices i whose loop body has run (grad[i] assigned), in order
    gpc,       \* "idle" | "ready" | "loop" | "returned"
    \* ---- activations ---------------------------------------------------
    ax,        \* the input x of the activation (Array2<f64> or Matrix)
    afn,       \* the function called: "none" | "sigmoid" | "sigmoid_matrix"
               \*                      | "softmax" | "softmax_matrix"
    aout,      \* the local `result` / the returned array; NoMatrix if none
    arow,      \* number of rows softmax has processed
    aargs,     \* per processed row: the arguments handed to exp()
    asums,     \* per processed row: the local `sum`
    apc,       \* "idle" | "ready" | "rows" | "returned" | "panicked"
    \* ---- loss functions ------------------------------------------------
    ly,        \* the predictions y (&Array2<f64>), entries in tenths
    lt,        \* the targets t (&Array2<f64>), entries in tenths
    lmse,      \* the outcome of mean_squared_error(&y, &t)
    lce,       \* the outcome of cross_entropy_error(&y, &t)
    lopt,      \* the outcome of cross_entropy_error_optimized(&y, &t)
    lpc,       \* "idle" | "ready"
    \* ---- two-layer network ---------------------------------------------
    net,       \* the network: backend, w1, b1, w2, b2; NoNet before new()
    nx,        \* the input x of predict
    nout,      \* the array predict returned; NoMatrix if none
    npc,       \* position in new / predict / the training loop; "panicked"
               \* after a panic in new or predict, "train_panicked" in training
    nstep,     \* the loop variable `step` of train_example
    ngrad,     \* grad_w1, grad_b1, grad_w2, grad_b2 of the current step
    \* ---- Matrix values and the storage they own -----------------------
    heap,      \* the allocated Vec<f64> rows, by address
    ha,        \* the Matrix a (the receiver)
    hb,        \* the Matrix b (the argument)
    hres,      \* the Matrix an operation returned; NoMatrix if none
    hop,       \* the operation performed last
    hpc,       \* "idle" | "ready" | "returned" | "panicked"
    hsnap,     \* a and b (shape and entries) when the last operation was called, and
               \* whether from_vec was ever given rows of unequal length
    hcalls,    \* the last map's closure and the entries it was called with, or
               \* the arguments (rows, cols, val) of the last new
    hn,        \* number of operations performed so far
    \* ---- perceptron gates ----------------------------------------------
    gin,       \* the arguments <<x1, x2>> of the gates, in tenths
    gout,      \* what and_gate, nand_gate, or_gate and xor_gate returned
    gxs,       \* xor_gate: its position and its locals s1 and s2
    \* ---- MNIST files ---------------------------------------------------
    mfile,     \* the bytes the reader yields (the decompressed file)
    mfn,       \* the loader called: "none" | "load_images" | "load_labels"
    mpos,      \* number of bytes read so far
    mhdr,      \* the header fields read so far
    mres,      \* the Result returned; NoResult if none
    mpc,       \* position in the loader, then in labels_to_one_hot
    moh,       \* the local `one_hot` of labels_to_one_hot
    mi         \* number of labels labels_to_one_hot has processed

matrixVars == <<self, other, op, pc, result, t>>
gradVars == <<x, x0, f, grad, p, calls, visited, gpc>>
actVars == <<ax, afn, aout, arow, aargs, asums, apc>>
lossVars == <<ly, lt, lmse, lce, lopt, lpc>>
netVars == <<net, nx, nout, npc, nstep, ngrad>>
memVars == <<heap, ha, hb, hres, hop, hpc, hsnap, hcalls, hn>>
gateVars == <<gin, gout, gxs>>
mnistVars == <<mfile, mfn, mpos, mhdr, mres, mpc, moh, mi>>

vars == <<self, other, op, pc, result, t, x, x0, f, grad, p, calls, visited, gpc,
          ax, afn, aout, arow, aargs, asums, apc,
          ly, lt, lmse, lce, lopt, lpc,
          net, nx, nout, npc, nstep, ngrad,
          heap, ha, hb, hres, hop, hpc, hsnap, hcalls, hn,
          gin, gout, gxs,
          mfile, mfn, mpos, mhdr, mres, mpc, moh, mi>>

(***************************************************************************)
(* Bounds of the model (not program constants).                            *)
(***************************************************************************)
\* largest row/column count of an operand matrix
MaxDim == 2
\* operand entries are s + position for a seed s in -MaxSeed..MaxSeed
MaxSeed == 4
\* largest length of a 1-D point of numerical_gradient
MaxLen == 3

(***************************************************************************)
(*                         Matrix (matrix.rs)                              *)
(***************************************************************************)
NoMatrix == [rows |-> -1, cols |-> -1, data |-> <<>>]

\* (faulty variant: cols rows of rows entries)
MatrixNewTransposed(rows, cols, val) ==
    [rows |-> rows, cols |-> cols,
     data |-> [i \in 1..cols |-> [j \in 1..rows |-> val]]]
\* Matrix::new(rows, cols, val): vec![vec![val; cols]; rows]
MatrixNew(rows, cols, val) ==
    [rows |-> rows, cols |-> cols,
     data |-> [i \in 1..rows |-> [j \in 1..cols |-> val]]]

\* The operands the model draws: the r x c matrix whose entries, read in
\* row-major order, are s+1, s+2, ...   (s = 0, 2 x 2: [[1,2],[3,4]];
\* s = 4, 2 x 2: [[5,6],[7,8]]).  Matrices with r = 0 or c = 0 are the ones
\* Matrix::new(r, c, _) builds.
Mat(r, c, s) ==
    [rows |-> r, cols |-> c,
     data |-> [i \in 1..r |-> [j \in 1..c |-> s + (i - 1) * c + j]]]

Dims == 0..MaxDim
Seeds == (0 - MaxSeed)..MaxSeed
Operands == {Mat(r, c, s) : r \in Dims, c \in Dims, s \in Seeds}

\* #[derive(Clone)]: an owned copy with the same rows, cols and data
Clone(m) == [rows |-> m.rows, cols |-> m.cols, data |-> m.data]

\* shape(): (rows, cols)
Shape(m) == <<m.rows, m.cols>>

\* ---- dot ---------------------------------------------------------------
\* assert_eq!(self.cols, other.rows)
\* (faulty variant: compares the two column counts)
DotShapeOkSwapped(s, o) == s.cols = o.cols
DotShapeOk(s, o) == s.cols = o.rows

\* the loop nest  for i in 0..self.rows { for j in 0..other.cols {
\* for k in 0..self.cols {..} } }  runs this many bodies ...
DotIterations(s, o) == s.rows * o.cols * s.cols

\* ... and its n-th body (n = 0, 1, ...) has these 0-based indices
DotI(s, o, n) == n \div (o.cols * s.cols)
DotJ(s, o, n) == (n \div s.cols) % o.cols
DotK(s, o, n) == n % s.cols

\* result.data[i][j] += term
\* (faulty variant: `=` instead of `+=`)
DotAccumulateOverwrite(old, term) == term
DotAccumulate(old, term) == old + term

\* let mut result = Matrix::new(self.rows, other.cols, 0.0), after the assert
DotEnter ==
    /\ pc = "ready"
    /\ op' = "dot"
    /\ t' = 0
    /\ IF DotShapeOk(self, other)
         THEN /\ result' = MatrixNew(self.rows, other.cols, 0)
              /\ pc' = "dot_loop"
         ELSE /\ result' = NoMatrix
              /\ pc' = "panicked"
    /\ UNCHANGED <<self, other>>
    /\ UNCHANGED gradVars
    /\ UNCHANGED actVars
    /\ UNCHANGED <<lossVars, netVars, memVars, gateVars, mnistVars>>

\* one body of the innermost loop:
\*   result.data[i][j] += self.data[i][k] * other.data[k][j];
\* an index outside a Vec panics (index out of bounds)
DotStep ==
    /\ pc = "dot_loop"
    /\ t < DotIterations(self, other)
    /\ LET i == DotI(self, other, t) + 1
           j == DotJ(self, other, t) + 1
           k == DotK(self, other, t) + 1
           inBounds == /\ i <= Len(self.data) /\ k <= Len(self.data[i])
                       /\ k <= Len(other.data) /\ j <= Len(other.data[k])
                       /\ i <= Len(result.data) /\ j <= Len(result.data[i])
       IN  IF inBounds
             THEN /\ result' = [result EXCEPT !.data[i][j] =
                        DotAccumulate(@, self.data[i][k] * other.data[k][j])]
                  /\ t' = t + 1
                  /\ pc' = "dot_loop"
             ELSE /\ pc' = "panicked"
                  /\ UNCHANGED <<result, t>>
    /\ UNCHANGED <<self, other, op>>
    /\ UNCHANGED gradVars
    /\ UNCHANGED actVars
    /\ UNCHANGED <<lossVars, netVars, memVars, gateVars, mnistVars>>

\* the loops are exhausted: `result` is returned
DotReturn ==
    /\ pc = "dot_loop"
    /\ t = DotIterations(self, other)
    /\ pc' = "returned"
    /\ UNCHANGED <<self, other, op, result, t>>
    /\ UNCHANGED gradVars
    /\ UNCHANGED actVars
    /\ UNCHANGED <<lossVars, netVars, memVars, gateVars, mnistVars>>

\* ---- add ---------------------------------------------------------------
\* self.rows == other.rows && self.cols == other.cols
SameShape(s, o) == s.rows = o.rows /\ s.cols = o.cols

\* other.rows == 1 && self.cols == other.cols
\* (faulty variant: also broadcasts a one-row self)
AddBroadcastableEitherWay(s, o) == (o.rows = 1 \/ s.rows = 1) /\ s.cols = o.cols
AddBroadcastable(s, o) == o.rows = 1 /\ s.cols = o.cols

\* first branch: result = self.clone(); result.data[i][j] += other.data[i][j]
AddElementwise(s, o) ==
    [Clone(s) EXCEPT !.data =
        [i \in 1..s.rows |-> [j \in 1..s.cols |-> s.data[i][j] + o.data[i][j]]]]

\* second branch, one entry: result.data[i][j] += other.data[0][j]
\* (faulty variant: the row is added to the first row only)
AddBroadcastEntryFirstRowOnly(s, o, i, j) ==
    IF i = 1 THEN s.data[i][j] + o.data[1][j] ELSE s.data[i][j]
AddBroadcastEntry(s, o, i, j) == s.data[i][j] + o.data[1][j]

\* second branch: result = self.clone(); every row gets other's single row
AddBroadcast(s, o) ==
    [Clone(s) EXCEPT !.data =
        [i \in 1..s.rows |-> [j \in 1..s.cols |-> AddBroadcastEntry(s, o, i, j)]]]

\* Matrix::add, the whole method
Add ==
    /\ pc = "ready"
    /\ op' = "add"
    /\ IF SameShape(self, other)
         THEN result' = AddElementwise(self, other) /\ pc' = "returned"
         ELSE IF AddBroadcastable(self, other)
                THEN result' = AddBroadcast(self, other) /\ pc' = "returned"
                ELSE result' = NoMatrix /\ pc' = "panicked"
    /\ UNCHANGED <<self, other, t>>
    /\ UNCHANGED gradVars
    /\ UNCHANGED actVars
    /\ UNCHANGED <<lossVars, netVars, memVars, gateVars, mnistVars>>


(***************************************************************************)
(*                    numerical_gradient (grad.rs)                          *)
(***************************************************************************)
\* ---- scalars: c0 + c1*H + c2*H^2 as <<c0, c1, c2>> ----------------------
PConst(n) == <<n, 0, 0>>
\* const H: f64 = 1e-4
PH == <<0, 1, 0>>
PAdd(a, b) == <<a[1] + b[1], a[2] + b[2], a[3] + b[3]>>
PSub(a, b) == <<a[1] - b[1], a[2] - b[2], a[3] - b[3]>>
\* the product of two scalars of degree <= 1 in H (array entries)
PMul(a, b) == <<a[1] * b[1], a[1] * b[2] + a[2] * b[1], a[2] * b[2]>>
\* n * a for an f64 constant n
PScale(n, a) == <<n * a[1], n * a[2], n * a[3]>>

RECURSIVE CoefSum(_, _, _)
\* the sum of the k-th coefficients of the first n scalars of seq, added
\* from the left
CoefSum(seq, k, n) == IF n = 0 THEN 0 ELSE CoefSum(seq, k, n - 1) + seq[n][k]
\* iter().sum() of a sequence of scalars
PSum(seq) == <<CoefSum(seq, 1, Len(seq)), CoefSum(seq, 2, Len(seq)), CoefSum(seq, 3, Len(seq))>>

\* ---- ndarray arrays: a shape and the entries in logical (row-major) order
RECURSIVE Product(_)
Product(dims) == IF dims = <<>> THEN 1 ELSE dims[1] * Product(Tail(dims))

\* x.len()
Size(arr) == Product(arr.shape)

\* the array of `shape` whose entries in row-major order are s, s+1, ...
\* (s = 3: arr1(&[3,4,5]) for shape <<3>>, arr2(&[[3,4]]) for shape <<1,2>>)
Arr(shape, s) == [shape |-> shape, data |-> [q \in 1..Product(shape) |-> PConst(s + q - 1)]]

Shapes == {<<n>> : n \in 0..MaxLen} \cup {<<r, c>> : r \in Dims, c \in Dims}
Points == {Arr(sh, s) : sh \in Shapes, s \in Seeds}
NoArray == [shape |-> <<0>>, data |-> <<>>]

\* (faulty variant: column by column)
IndexAtColumnMajor(shape, n) ==
    IF Len(shape) = 1 THEN <<n>> ELSE <<n % shape[1], n \div shape[1]>>
\* the n-th index (n = 0, 1, ...) that indexed_iter() yields: i for Ix1,
\* (i, j) for Ix2, in row-major order
IndexAt(shape, n) ==
    IF Len(shape) = 1 THEN <<n>> ELSE <<n \div shape[2], n % shape[2]>>

\* the position of the entry arr[i] in the row-major data
Offset(shape, i) ==
    IF Len(shape) = 1 THEN i[1] ELSE i[1] * shape[2] + i[2]

\* let mut xh = x.clone(); xh[i] += delta
\* (faulty variant: one working copy that keeps the earlier perturbations)
PerturbedCopyShared(arr, i, delta) ==
    [arr EXCEPT !.data = [q \in 1..Len(arr.data) |->
        IF q <= Offset(arr.shape, i) + 1 THEN PAdd(arr.data[q], delta) ELSE arr.data[q]]]
PerturbedCopy(arr, i, delta) ==
    [arr EXCEPT !.data[Offset(arr.shape, i) + 1] = PAdd(@, delta)]

\* xh1[i] += H
PlusH == PH
\* xh2[i] -= H
\* (faulty variant: += H twice)
MinusHWrongSign == PH
MinusH == PSub(PConst(0), PH)

\* ---- the closures handed to numerical_gradient --------------------------
\* |x| x.iter().map(|v| v.powi(2)).sum()   (the closure of both tests)
SumSq(arr) == PSum([q \in 1..Len(arr.data) |-> PMul(arr.data[q], arr.data[q])])
\* a linear closure, sum of (q * x_q): every entry has its own derivative
Weighted(arr) == PSum([q \in 1..Len(arr.data) |-> PScale(q, arr.data[q])])
\* a closure that couples the entries: (sum of x_q)^2
SqSum(arr) == PMul(PSum(arr.data), PSum(arr.data))

Closures == {"SumSq", "Weighted", "SqSum"}

\* f(&xh)
Call(fn, arr) ==
    CASE fn = "SumSq" -> SumSq(arr)
      [] fn = "Weighted" -> Weighted(arr)
      [] OTHER -> SqSum(arr)

\* (fxh1 - fxh2) / (2.0 * H), kept as the fraction num / den
\* (faulty variant: divides by H)
GradQuotOverH(fxh1, fxh2) == [num |-> PSub(fxh1, fxh2), den |-> PH]
GradQuot(fxh1, fxh2) == [num |-> PSub(fxh1, fxh2), den |-> PScale(2, PH)]

\* 0.0 as a fraction over the same denominator
QZero == [num |-> PConst(0), den |-> PScale(2, PH)]

\* Array::zeros(x.raw_dim())
Zeros(shape) == [shape |-> shape, data |-> [q \in 1..Product(shape) |-> QZero]]

\* let mut grad = Array::zeros(x.raw_dim());
GradEnter ==
    /\ gpc = "ready"
    /\ grad' = Zeros(x.shape)
    /\ p' = 0
    /\ gpc' = "loop"
    /\ UNCHANGED <<x, x0, f, calls, visited>>
    /\ UNCHANGED matrixVars
    /\ UNCHANGED actVars
    /\ UNCHANGED <<lossVars, netVars, memVars, gateVars, mnistVars>>

\* one body of  for (i, _val) in x.indexed_iter() { ... }
GradIter ==
    /\ gpc = "loop"
    /\ p < Size(x)
    /\ LET i == IndexAt(x.shape, p)
           xh1 == PerturbedCopy(x, i, PlusH)
           xh2 == PerturbedCopy(x, i, MinusH)
           fxh1 == Call(f, xh1)
           fxh2 == Call(f, xh2)
       IN  /\ grad' = [grad EXCEPT !.data[Offset(grad.shape, i) + 1] = GradQuot(fxh1, fxh2)]
           /\ calls' = calls \o <<xh1, xh2>>
           /\ visited' = Append(visited, i)
    /\ p' = p + 1
    /\ UNCHANGED <<x, x0, f, gpc>>
    /\ UNCHANGED matrixVars
    /\ UNCHANGED actVars
    /\ UNCHANGED <<lossVars, netVars, memVars, gateVars, mnistVars>>

\* the iterator is exhausted: `grad` is returned
GradReturn ==
    /\ gpc = "loop"
    /\ p = Size(x)
    /\ gpc' = "returned"
    /\ UNCHANGED <<x, x0, f, grad, p, calls, visited>>
    /\ UNCHANGED matrixVars
    /\ UNCHANGED actVars
    /\ UNCHANGED <<lossVars, netVars, memVars, gateVars, mnistVars>>

GradIdle ==
    /\ x = NoArray /\ x0 = NoArray /\ f = "none" /\ grad = NoArray
    /\ p = 0 /\ calls = <<>> /\ visited = <<>> /\ gpc = "idle"

GradInit ==
    /\ x \in Points
    /\ x0 = x
    /\ f \in Closures
    /\ grad = NoArray
    /\ p = 0
    /\ calls = <<>>
    /\ visited = <<>>
    /\ gpc = "ready"


(***************************************************************************)
(*                 f64 values built from exp() (activation.rs)              *)
(***************************************************************************)
\* exp(v) is +inf in f64 for every integer v >= 710 (e^709 < f64::MAX < e^710)
ExpOverflowAt == 710
\* exp(-v) is 0.0 in f64 for every integer v >= 746 (e^-745 rounds to the
\* smallest subnormal, e^-746 to 0)
ExpUnderflowAt == 746
\* a + b == a in f64 whenever 0 <= b <= a * e^-37  (e^-37 < 2^-53 < e^-36)
AbsorbAt == 37

\* a bag of integer exponents {k1, k2, ...} stands for e^-k1 + e^-k2 + ...
Unit == SetToBag({0})
Power(k) == SetToBag({k})
Exponents(B) == BagToSet(B)
MinExponent(B) == CHOOSE k \in Exponents(B) : \A j \in Exponents(B) : k <= j
ShiftBag(B, d) == [k \in {j + d : j \in Exponents(B)} |-> B[k - d]]
Restrict(B, S) == [k \in Exponents(B) \cap S |-> B[k]]

\* f64 values: NaN, +inf, an input entry not yet transformed (raw), or the
\* finite value (sum of e^-k, k in num) / (sum of e^-k, k in den)
NaN == [kind |-> "nan", val |-> 0, num |-> EmptyBag, den |-> EmptyBag]
Inf == [kind |-> "inf", val |-> 0, num |-> EmptyBag, den |-> EmptyBag]
Raw(v) == [kind |-> "raw", val |-> v, num |-> EmptyBag, den |-> EmptyBag]
Fin(num, den) == [kind |-> "fin", val |-> 0, num |-> num, den |-> den]
FZero == Fin(EmptyBag, Unit)
FOne == Fin(Unit, Unit)

\* f64::exp of an integer-valued argument
FExp(v) ==
    IF v >= ExpOverflowAt THEN Inf
    ELSE IF 0 - v >= ExpUnderflowAt THEN FZero
    ELSE Fin(Power(0 - v), Unit)

\* rounding of a sum: the terms below e^-37 times its largest term are lost
Absorb(B) ==
    IF B = EmptyBag THEN B
    ELSE Restrict(B, {k \in Exponents(B) : k < MinExponent(B) + AbsorbAt})

\* a + b for values that are sums of powers of e (den = Unit)
FAdd(a, b) ==
    IF a.kind = "nan" \/ b.kind = "nan" THEN NaN
    ELSE IF a.kind = "inf" \/ b.kind = "inf" THEN Inf
    ELSE Fin(Absorb(a.num (+) b.num), Unit)

\* a / b for values that are sums of powers of e (den = Unit)
FDiv(a, b) ==
    IF a.kind = "nan" \/ b.kind = "nan" THEN NaN
    ELSE IF a.kind = "inf" THEN (IF b.kind = "inf" THEN NaN ELSE Inf)
    ELSE IF b.kind = "inf" THEN FZero
    ELSE IF b.num = EmptyBag THEN (IF a.num = EmptyBag THEN NaN ELSE Inf)
    ELSE IF a.num = EmptyBag THEN FZero
    ELSE IF MinExponent(b.num) - MinExponent(a.num) >= ExpOverflowAt THEN Inf
    ELSE Fin(ShiftBag(a.num, 0 - MinExponent(b.num)),
             ShiftBag(b.num, 0 - MinExponent(b.num)))

RECURSIVE FSum(_)
\* the sum of a sequence, accumulated from 0.0 in order
FSum(seq) ==
    IF seq = <<>> THEN FZero
    ELSE FAdd(FSum(SubSeq(seq, 1, Len(seq) - 1)), seq[Len(seq)])

(***************************************************************************)
(*                 sigmoid and softmax (activation.rs)                      *)
(***************************************************************************)
\* The inputs the model draws: r x c arrays of integer-valued f64 with
\* entry (i, j) = base + i*rowStep + j*colStep (0-based i, j): equal entries,
\* entries >= 1000, and rows whose spread passes the absorption (37) and
\* the underflow (746) thresholds.
Bases == {0, 1, 1000}
Steps == {-800, -40, 0, 1}
Input(r, c, base, rowStep, colStep) ==
    [rows |-> r, cols |-> c,
     data |-> [i \in 1..r |-> [j \in 1..c |-> base + (i - 1) * rowStep + (j - 1) * colStep]]]
Inputs == {Input(r, c, b, rs, cs) : r \in Dims, c \in 0..MaxLen, b \in Bases,
                                    rs \in Steps, cs \in Steps}

\* Matrix::from_vec(data): rows = data.len(), cols = data[0].len();
\* data[0] panics on an empty Vec
FromVecPanics(data) == Len(data) = 0
\* (faulty variant: cols taken from the number of rows)
FromVecColsFromRows(data) == [rows |-> Len(data), cols |-> Len(data), data |-> data]
FromVec(data) == [rows |-> Len(data), cols |-> Len(data[1]), data |-> data]

\* the argument of exp in sigmoid: (-v)
\* (faulty variant: exp(v))
SigmoidArgNotNegated(v) == v
SigmoidArg(v) == 0 - v

\* |v| 1.0 / (1.0 + (-v).exp())
SigmoidOf(v) == FDiv(FOne, FAdd(FOne, FExp(SigmoidArg(v))))

\* f64::max, and row.iter().cloned().fold(f64::NEG_INFINITY, f64::max)
NegInfinity == [neg_inf |-> TRUE, v |-> 0]
F64Max(acc, v) == IF acc.neg_inf \/ acc.v < v THEN [neg_inf |-> FALSE, v |-> v] ELSE acc
RECURSIVE FoldMax(_)
FoldMax(row) ==
    IF row = <<>> THEN NegInfinity
    ELSE F64Max(FoldMax(SubSeq(row, 1, Len(row) - 1)), row[Len(row)])

\* the argument of exp in softmax: (v - max_val)
\* (faulty variant: no max subtraction)
ExpArgNoMax(v, max_val) == v
ExpArg(v, max_val) == v - max_val.v

\* the arguments of exp for one row, its exponentials and their sum
RowArgs(row) == [j \in 1..Len(row) |-> ExpArg(row[j], FoldMax(row))]
RowExp(row) == [j \in 1..Len(row) |-> FExp(RowArgs(row)[j])]
RowSum(row) == FSum(RowExp(row))

\* |v| v / sum
\* (faulty variant: no division by the sum)
NormalizeSkipped(e, sum) == e
Normalize(e, sum) == FDiv(e, sum)

SoftmaxRowOf(row) == [j \in 1..Len(row) |-> Normalize(RowExp(row)[j], RowSum(row))]

\* sigmoid(x): x.mapv(...)
sigmoid ==
    /\ apc = "ready"
    /\ afn' = "sigmoid"
    /\ aout' = [rows |-> ax.rows, cols |-> ax.cols,
                data |-> [i \in 1..ax.rows |-> [j \in 1..ax.cols |-> SigmoidOf(ax.data[i][j])]]]
    /\ apc' = "returned"
    /\ UNCHANGED <<ax, arow, aargs, asums>>
    /\ UNCHANGED matrixVars
    /\ UNCHANGED gradVars
    /\ UNCHANGED <<lossVars, netVars, memVars, gateVars, mnistVars>>

\* sigmoid_matrix(x): x.map(...), which ends in Matrix::from_vec
sigmoid_matrix ==
    /\ apc = "ready"
    /\ afn' = "sigmoid_matrix"
    /\ LET mapped == [i \in 1..Len(ax.data) |->
                        [j \in 1..Len(ax.data[i]) |-> SigmoidOf(ax.data[i][j])]]
       IN  IF FromVecPanics(mapped)
             THEN aout' = NoMatrix /\ apc' = "panicked"
             ELSE aout' = FromVec(mapped) /\ apc' = "returned"
    /\ UNCHANGED <<ax, arow, aargs, asums>>
    /\ UNCHANGED matrixVars
    /\ UNCHANGED gradVars
    /\ UNCHANGED <<lossVars, netVars, memVars, gateVars, mnistVars>>

\* softmax(x): let mut result = x.clone();
SoftmaxClone ==
    /\ apc = "ready"
    /\ afn' = "softmax"
    /\ aout' = [rows |-> ax.rows, cols |-> ax.cols,
                data |-> [i \in 1..ax.rows |-> [j \in 1..ax.cols |-> Raw(ax.data[i][j])]]]
    /\ arow' = 0
    /\ apc' = "rows"
    /\ UNCHANGED <<ax, aargs, asums>>
    /\ UNCHANGED matrixVars
    /\ UNCHANGED gradVars
    /\ UNCHANGED <<lossVars, netVars, memVars, gateVars, mnistVars>>

\* softmax(x): one body of  for mut row in result.axis_iter_mut(Axis(0))
SoftmaxRow ==
    /\ apc = "rows" /\ afn = "softmax"
    /\ arow < aout.rows
    /\ LET row == [j \in 1..aout.cols |-> aout.data[arow + 1][j].val]
       IN  /\ aout' = [aout EXCEPT !.data[arow + 1] = SoftmaxRowOf(row)]
           /\ aargs' = Append(aargs, RowArgs(row))
           /\ asums' = Append(asums, RowSum(row))
    /\ arow' = arow + 1
    /\ UNCHANGED <<ax, afn, apc>>
    /\ UNCHANGED matrixVars
    /\ UNCHANGED gradVars
    /\ UNCHANGED <<lossVars, netVars, memVars, gateVars, mnistVars>>

\* softmax(x): the rows are exhausted, `result` is returned
SoftmaxReturn ==
    /\ apc = "rows" /\ afn = "softmax"
    /\ arow = aout.rows
    /\ apc' = "returned"
    /\ UNCHANGED <<ax, afn, aout, arow, aargs, asums>>
    /\ UNCHANGED matrixVars
    /\ UNCHANGED gradVars
    /\ UNCHANGED <<lossVars, netVars, memVars, gateVars, mnistVars>>

\* softmax_matrix(x): let mut result = Vec::new();
SoftmaxMatrixNewVec ==
    /\ apc = "ready"
    /\ afn' = "softmax_matrix"
    /\ aout' = [rows |-> 0, cols |-> 0, data |-> <<>>]
    /\ arow' = 0
    /\ apc' = "rows"
    /\ UNCHANGED <<ax, aargs, asums>>
    /\ UNCHANGED matrixVars
    /\ UNCHANGED gradVars
    /\ UNCHANGED <<lossVars, netVars, memVars, gateVars, mnistVars>>

\* softmax_matrix(x): one body of  for row in &x.data  (result.push)
SoftmaxMatrixRow ==
    /\ apc = "rows" /\ afn = "softmax_matrix"
    /\ arow < Len(ax.data)
    /\ LET row == ax.data[arow + 1]
       IN  /\ aout' = [aout EXCEPT !.data = Append(@, SoftmaxRowOf(row))]
           /\ aargs' = Append(aargs, RowArgs(row))
           /\ asums' = Append(asums, RowSum(row))
    /\ arow' = arow + 1
    /\ UNCHANGED <<ax, afn, apc>>
    /\ UNCHANGED matrixVars
    /\ UNCHANGED gradVars
    /\ UNCHANGED <<lossVars, netVars, memVars, gateVars, mnistVars>>

\* softmax_matrix(x): Matrix::from_vec(result)
SoftmaxMatrixFromVec ==
    /\ apc = "rows" /\ afn = "softmax_matrix"
    /\ arow = Len(ax.data)
    /\ IF FromVecPanics(aout.data)
         THEN aout' = NoMatrix /\ apc' = "panicked"
         ELSE aout' = FromVec(aout.data) /\ apc' = "returned"
    /\ UNCHANGED <<ax, afn, arow, aargs, asums>>
    /\ UNCHANGED matrixVars
    /\ UNCHANGED gradVars
    /\ UNCHANGED <<lossVars, netVars, memVars, gateVars, mnistVars>>

ActIdle ==
    /\ ax = NoMatrix /\ afn = "none" /\ aout = NoMatrix /\ arow = 0
    /\ aargs = <<>> /\ asums = <<>> /\ apc = "idle"

ActInit ==
    /\ ax \in Inputs
    /\ afn = "none"
    /\ aout = NoMatrix
    /\ arow = 0
    /\ aargs = <<>>
    /\ asums = <<>>
    /\ apc = "ready"

(***************************************************************************)
(*                       loss functions (loss.rs)                          *)
(***************************************************************************)
\* Numbers.  The entries of y and t are f64 values with one decimal, kept
\* in tenths: the integer n stands for n/10 (10 is 1.0).  A squared
\* difference is then an integer number of hundredths, and a mean is kept as
\* the fraction num / den.  The logarithm is not evaluated: ln(n/10 + 1e-7)
\* is the atom n, a cross-entropy is a linear combination of atoms (a
\* function from atoms to integer coefficients) over a denominator, and
\* ln of a negative number is NaN (every negative entry is <= -0.1).

\* ---- the arrays the model draws ---------------------------------------
\* predictions: entry (i, j) = (s + position) / 10
Pred(r, c, s) ==
    [rows |-> r, cols |-> c,
     data |-> [i \in 1..r |-> [j \in 1..c |-> s + (i - 1) * c + j]]]

\* one-hot targets: row i holds 1.0 at column ((k + i - 1) mod c) and 0.0
\* elsewhere  (r = c = 2, k = 1: [[0, 1], [1, 0]], the target of the tests)
OneHot(r, c, k) ==
    [rows |-> r, cols |-> c,
     data |-> [i \in 1..r |-> [j \in 1..c |->
                  IF j = ((k + i - 1) % c) + 1 THEN 10 ELSE 0]]]

\* targets that are not one-hot: every entry v/10
Uniform(r, c, v) ==
    [rows |-> r, cols |-> c, data |-> [i \in 1..r |-> [j \in 1..c |-> v]]]

\* array![[0.1, 0.9], [0.8, 0.2]] and array![[0.0, 1.0], [1.0, 0.0]]
TestY == [rows |-> 2, cols |-> 2, data |-> <<<<1, 9>>, <<8, 2>>>>]
TestT == OneHot(2, 2, 1)

Predictions ==
    {Pred(r, c, s) : r \in Dims, c \in Dims, s \in {0 - MaxSeed, 0}} \cup {TestY}
Targets ==
    {OneHot(r, c, k) : r \in Dims, c \in Dims, k \in {0, 1}}
        \cup {Uniform(r, c, v) : r \in Dims, c \in Dims, v \in {0, 10}}
        \cup Predictions

\* ---- ndarray arithmetic on two arrays --------------------------------
\* the broadcast length of one axis (co_broadcast): equal lengths, or a
\* length of 1 stretched to the other; -1 if the lengths are incompatible
CoBroadcastAxis(m, n) ==
    IF m = n THEN m ELSE IF m = 1 THEN n ELSE IF n = 1 THEN m ELSE -1

\* the two shapes have a broadcast shape
Broadcastable(a, b) ==
    CoBroadcastAxis(a.rows, b.rows) # -1 /\ CoBroadcastAxis(a.cols, b.cols) # -1

\* the view of `a` in the broadcast shape of a and b
BroadcastWith(a, b) ==
    LET r == CoBroadcastAxis(a.rows, b.rows)
        c == CoBroadcastAxis(a.cols, b.cols)
    IN  [rows |-> r, cols |-> c,
         data |-> [i \in 1..r |-> [j \in 1..c |->
                      a.data[IF a.rows = 1 THEN 1 ELSE i][IF a.cols = 1 THEN 1 ELSE j]]]]

\* the outcome of a call: not called, a panic, or the f64 returned
NotCalled == [st |-> "none", kind |-> "none", num |-> 0, den |-> 1]
Panic == [st |-> "panicked", kind |-> "none", num |-> 0, den |-> 1]
Returned(kind, num, den) == [st |-> "returned", kind |-> kind, num |-> num, den |-> den]

RECURSIVE SumSeq(_)
\* the sum of a sequence of integers
SumSeq(seq) == IF seq = <<>> THEN 0 ELSE SumSeq(SubSeq(seq, 1, Len(seq) - 1)) + seq[Len(seq)]

\* the entries of an array in logical (row-major) order
RECURSIVE Flatten(_)
Flatten(rows) == IF rows = <<>> THEN <<>> ELSE rows[1] \o Flatten(Tail(rows))

\* ---- mean_squared_error ------------------------------------------------
\* let diff = y - t;
Diff(y, tg) ==
    LET yb == BroadcastWith(y, tg)
        tb == BroadcastWith(tg, y)
    IN  [yb EXCEPT !.data = [i \in 1..yb.rows |-> [j \in 1..yb.cols |->
                                  yb.data[i][j] - tb.data[i][j]]]]

\* let squared_diff = &diff * &diff;   (hundredths)
\* (faulty variant: the absolute difference, not its square)
SquaredDiffAbs(diff) ==
    [diff EXCEPT !.data = [i \in 1..diff.rows |-> [j \in 1..diff.cols |->
                              IF diff.data[i][j] < 0 THEN 0 - diff.data[i][j]
                                                     ELSE diff.data[i][j]]]]
SquaredDiff(diff) ==
    [diff EXCEPT !.data = [i \in 1..diff.rows |-> [j \in 1..diff.cols |->
                              diff.data[i][j] * diff.data[i][j]]]]

\* squared_diff.mean().unwrap(): mean() is None for an array without entries
Mean(arr) ==
    IF arr.rows * arr.cols = 0 THEN Panic
    ELSE Returned("fin", SumSeq(Flatten(arr.data)), 100 * arr.rows * arr.cols)

mean_squared_error ==
    /\ lpc = "ready"
    /\ lmse.st = "none"
    /\ lmse' = IF Broadcastable(ly, lt) THEN Mean(SquaredDiff(Diff(ly, lt))) ELSE Panic
    /\ UNCHANGED <<ly, lt, lce, lopt, lpc>>
    /\ UNCHANGED <<matrixVars, gradVars, actVars, netVars, memVars, gateVars, mnistVars>>

\* ---- cross_entropy_error -----------------------------------------------
\* the atoms of y: its entries
Atoms(y) == UNION {{y.data[i][j] : j \in 1..y.cols} : i \in 1..y.rows}

\* let y_safe = y + delta;  let log_y = y_safe.mapv(|x| x.ln());
\* an entry of log_y: NaN for a negative entry of y, else the atom
LogY(y) ==
    [y EXCEPT !.data = [i \in 1..y.rows |-> [j \in 1..y.cols |->
                           [nan |-> y.data[i][j] < 0, atom |-> y.data[i][j]]]]]

\* t * log_y, one entry: x * NaN is NaN for every x (also 0.0 * NaN);
\* else the atom with the coefficient t
Times(tv, lv) == [nan |-> lv.nan, atom |-> lv.atom, coef |-> tv]

\* (t * log_y): both operands in their broadcast shape
TimesLogY(tg, log_y) ==
    LET tb == BroadcastWith(tg, log_y)
        lb == BroadcastWith(log_y, tg)
    IN  [tb EXCEPT !.data = [i \in 1..tb.rows |-> [j \in 1..tb.cols |->
                                  Times(tb.data[i][j], lb.data[i][j])]]]

\* the sum of a sequence of products: NaN if one of them is, else the
\* linear combination over the atoms A
RECURSIVE CoefOf(_, _)
CoefOf(seq, a) ==
    IF seq = <<>> THEN 0
    ELSE CoefOf(SubSeq(seq, 1, Len(seq) - 1), a)
            + (IF seq[Len(seq)].atom = a THEN seq[Len(seq)].coef ELSE 0)
SumTerms(seq, A) ==
    [nan |-> \E n \in 1..Len(seq) : seq[n].nan,
     lin |-> [a \in A |-> CoefOf(seq, a)]]

\* .sum_axis(Axis(1)): one sum per row
SumAxis1(prod, A) == [i \in 1..prod.rows |-> SumTerms(prod.data[i], A)]

\* -(...).mean().unwrap(): the mean of the row sums, negated; mean() is None
\* for an array without entries
NegMean(sums, A) ==
    IF Len(sums) = 0 THEN Panic
    ELSE IF \E i \in 1..Len(sums) : sums[i].nan THEN Returned("nan", [a \in A |-> 0], 1)
    ELSE Returned("fin",
                  [a \in A |-> 0 - SumSeq([i \in 1..Len(sums) |-> sums[i].lin[a]])],
                  10 * Len(sums))

cross_entropy_error ==
    /\ lpc = "ready"
    /\ lce.st = "none"
    /\ lce' = IF Broadcastable(lt, ly)
                THEN NegMean(SumAxis1(TimesLogY(lt, LogY(ly)), Atoms(ly)), Atoms(ly))
                ELSE Panic
    /\ UNCHANGED <<ly, lt, lmse, lopt, lpc>>
    /\ UNCHANGED <<matrixVars, gradVars, actVars, netVars, memVars, gateVars, mnistVars>>

\* ---- cross_entropy_error_optimized ---------------------------------------
\* zip stops at the shorter of its two iterators
Min(m, n) == IF m < n THEN m ELSE n

\* the (y_val, t_val) pairs the two nested zips visit, in order
ZipPairs(y, tg) ==
    Flatten([i \in 1..Min(y.rows, tg.rows) |-> [j \in 1..Min(y.cols, tg.cols) |->
                [y_val |-> y.data[i][j], t_val |-> tg.data[i][j]]]])

\* if *t_val == 1.0 { sum += (*y_val + delta).ln(); }
IsHot(t_val) == t_val = 10

\* the terms added to `sum`
HotTerms(pairs) ==
    LET hot == SelectSeq(pairs, LAMBDA pr : IsHot(pr.t_val))
    IN  [n \in 1..Len(hot) |->
            [nan |-> hot[n].y_val < 0, atom |-> hot[n].y_val, coef |-> 1]]

\* let batch_size = y.nrows() as f64;
\* (faulty variant: the number of columns)
BatchSizeCols(y) == y.cols
BatchSize(y) == y.rows

\* -sum / batch_size: -0.0 / 0.0 is NaN
NegQuot(sum, batch_size, A) ==
    IF sum.nan \/ batch_size = 0 THEN Returned("nan", [a \in A |-> 0], 1)
    ELSE Returned("fin", [a \in A |-> 0 - sum.lin[a]], batch_size)

cross_entropy_error_optimized ==
    /\ lpc = "ready"
    /\ lopt.st = "none"
    /\ lopt' = NegQuot(SumTerms(HotTerms(ZipPairs(ly, lt)), Atoms(ly)),
                       BatchSize(ly), Atoms(ly))
    /\ UNCHANGED <<ly, lt, lmse, lce, lpc>>
    /\ UNCHANGED <<matrixVars, gradVars, actVars, netVars, memVars, gateVars, mnistVars>>

LossIdle ==
    /\ ly = NoMatrix /\ lt = NoMatrix /\ lmse = NotCalled /\ lce = NotCalled
    /\ lopt = NotCalled /\ lpc = "idle"

LossInit ==
    /\ ly \in Predictions
    /\ lt \in Targets
    /\ lmse = NotCalled
    /\ lce = NotCalled
    /\ lopt = NotCalled
    /\ lpc = "ready"

(***************************************************************************)
(*              the two-layer network (network.rs)                          *)
(***************************************************************************)
\* Numbers.  The forward pass mixes products, exp and quotients, so its
\* values are kept as terms that record what was computed from what:
\*   a parameter entry    [v0, sub]     the value drawn at construction less
\*                                      0.1 times each gradient entry in sub
\*   an affine entry      [dot, bias]   the products accumulated (in order of
\*                                      k) plus the bias entry
\*   a sigmoid entry      [sigmoid]     1 / (1 + exp(-argument))
\*   a softmax entry      [exp, of]     exp(entry - max of row) / sum of row
\* Shapes, and the panics that depend on them, are computed as the code does.

\* an entry of a parameter as constructed
Param(v) == [v0 |-> v, sub |-> <<>>]

\* Array::random((r, c), normal): the model draws the entries s+1, s+2, ...
RandomArray(r, c, s) ==
    [rows |-> r, cols |-> c,
     data |-> [i \in 1..r |-> [j \in 1..c |-> Param(s + (i - 1) * c + j)]]]

\* the sizes and seeds the model draws; new(2, 3, 2) is train_example's
InputSizes == Dims
HiddenSizes == 0..MaxLen
OutputSizes == Dims
NetSeeds == {0, 1}

\* SimpleNet::new(input_size, hidden_size, output_size)
\* (the three sizes, and the number of updates each parameter has received,
\* are kept with the parameters for reference)
SimpleNetNew(i, h, o, s) ==
    [backend |-> "ndarray", input_size |-> i, hidden_size |-> h, output_size |-> o,
     updates |-> <<0, 0, 0, 0>>,
     w1 |-> RandomArray(i, h, s),
     b1 |-> MatrixNew(1, h, Param(0)),
     w2 |-> RandomArray(h, o, s),
     b2 |-> MatrixNew(1, o, Param(0))]

\* (0..r).map(|_| (0..c).map(|_| normal.sample(&mut rng)).collect()).collect()
RandomRows(r, c, s) == RandomArray(r, c, s).data

\* SimpleNetMatrix::new: Matrix::from_vec panics on an empty Vec of rows
SimpleNetMatrixNewPanics(i, h, o, s) ==
    FromVecPanics(RandomRows(i, h, s)) \/ FromVecPanics(RandomRows(h, o, s))
SimpleNetMatrixNew(i, h, o, s) ==
    [backend |-> "matrix", input_size |-> i, hidden_size |-> h, output_size |-> o,
     updates |-> <<0, 0, 0, 0>>,
     w1 |-> FromVec(RandomRows(i, h, s)),
     b1 |-> MatrixNew(1, h, Param(0)),
     w2 |-> FromVec(RandomRows(h, o, s)),
     b2 |-> MatrixNew(1, o, Param(0))]

NoNet ==
    [backend |-> "none", input_size |-> 0, hidden_size |-> 0, output_size |-> 0,
     updates |-> <<0, 0, 0, 0>>,
     w1 |-> NoMatrix, b1 |-> NoMatrix, w2 |-> NoMatrix, b2 |-> NoMatrix]

\* the inputs of predict the model draws: integer-valued f64 entries
NetInputs == {Mat(r, c, s) : r \in Dims, c \in Dims, s \in {0 - 1, 0}}

\* ---- the forward pass, ndarray backend ---------------------------------
\* a.dot(&w): entry (i, j) accumulates a[i][k] * w[k][j] over k;
\* (a.rows, w.cols) for both backends
DotTerms(a, w) ==
    [rows |-> a.rows, cols |-> w.cols,
     data |-> [i \in 1..a.rows |-> [j \in 1..w.cols |->
                  [k \in 1..a.cols |-> <<a.data[i][k], w.data[k][j]>>]]]]

\* a.dot(&w) + &b: dot panics unless a.cols == w.rows, + panics unless the
\* shapes have a broadcast shape; NoMatrix stands for the panic
NdAffine(a, w, b) ==
    IF a.cols # w.rows THEN NoMatrix
    ELSE IF ~Broadcastable(DotTerms(a, w), b) THEN NoMatrix
    ELSE LET d == BroadcastWith(DotTerms(a, w), b)
             bb == BroadcastWith(b, DotTerms(a, w))
         IN  [d EXCEPT !.data = [i \in 1..d.rows |-> [j \in 1..d.cols |->
                  [dot |-> d.data[i][j], bias |-> bb.data[i][j]]]]]

\* sigmoid(&a): x.mapv(...)
NdSigmoid(a) ==
    [a EXCEPT !.data = [i \in 1..a.rows |-> [j \in 1..a.cols |->
                           [sigmoid |-> a.data[i][j]]]]]

\* softmax(&a): every row of a clone of a, transformed in place
NdSoftmax(a) ==
    [a EXCEPT !.data = [i \in 1..a.rows |-> [j \in 1..a.cols |->
                           [exp |-> a.data[i][j], of |-> a.data[i]]]]]

\* ---- the forward pass, Matrix backend ------------------------------------
\* a.dot(&w).add(&b): Matrix::dot asserts a.cols == w.rows; Matrix::add
\* takes the elementwise or the row-broadcast branch, or panics
MxAffine(a, w, b) ==
    IF ~DotShapeOk(a, w) THEN NoMatrix
    ELSE LET d == DotTerms(a, w)
         IN  IF SameShape(d, b)
               THEN [d EXCEPT !.data = [i \in 1..d.rows |-> [j \in 1..d.cols |->
                        [dot |-> d.data[i][j], bias |-> b.data[i][j]]]]]
             ELSE IF AddBroadcastable(d, b)
               THEN [d EXCEPT !.data = [i \in 1..d.rows |-> [j \in 1..d.cols |->
                        [dot |-> d.data[i][j], bias |-> b.data[1][j]]]]]
             ELSE NoMatrix

\* sigmoid_matrix(&a): a.map(...), which ends in Matrix::from_vec
MxSigmoid(a) ==
    LET mapped == [i \in 1..Len(a.data) |-> [j \in 1..Len(a.data[i]) |->
                      [sigmoid |-> a.data[i][j]]]]
    IN  IF FromVecPanics(mapped) THEN NoMatrix ELSE FromVec(mapped)

\* softmax_matrix(&a): the rows pushed to `result`, then Matrix::from_vec
MxSoftmax(a) ==
    LET pushed == [i \in 1..Len(a.data) |-> [j \in 1..Len(a.data[i]) |->
                      [exp |-> a.data[i][j], of |-> a.data[i]]]]
    IN  IF FromVecPanics(pushed) THEN NoMatrix ELSE FromVec(pushed)

\* ---- construction ----------------------------------------------------------
SimpleNet_new ==
    /\ npc = "start"
    /\ \E i \in InputSizes, h \in HiddenSizes, o \in OutputSizes, s \in NetSeeds :
          net' = SimpleNetNew(i, h, o, s)
    /\ npc' = "built"
    /\ UNCHANGED <<nx, nout, nstep, ngrad>>
    /\ UNCHANGED <<matrixVars, gradVars, actVars, lossVars, memVars, gateVars, mnistVars>>

SimpleNetMatrix_new ==
    /\ npc = "start"
    /\ \E i \in InputSizes, h \in HiddenSizes, o \in OutputSizes, s \in NetSeeds :
          IF SimpleNetMatrixNewPanics(i, h, o, s)
            THEN net' = NoNet /\ npc' = "panicked"
            ELSE net' = SimpleNetMatrixNew(i, h, o, s) /\ npc' = "built"
    /\ UNCHANGED <<nx, nout, nstep, ngrad>>
    /\ UNCHANGED <<matrixVars, gradVars, actVars, lossVars, memVars, gateVars, mnistVars>>

\* ---- SimpleNet::predict, statement by statement ------------------------------
\* the outcome of one statement: its value, or the panic
Advance(value, next) ==
    /\ nout' = value
    /\ npc' = IF value = NoMatrix THEN "panicked" ELSE next

\* let a1 = x.dot(&self.w1) + &self.b1;
PredictA1 ==
    /\ npc = "built" /\ net.backend = "ndarray"
    /\ \E xin \in NetInputs :
          /\ nx' = xin
          /\ Advance(NdAffine(xin, net.w1, net.b1), "nd_z1")
    /\ UNCHANGED <<net, nstep, ngrad>>
    /\ UNCHANGED <<matrixVars, gradVars, actVars, lossVars, memVars, gateVars, mnistVars>>

\* let z1 = sigmoid(&a1);
PredictZ1 ==
    /\ npc = "nd_z1"
    /\ Advance(NdSigmoid(nout), "nd_a2")
    /\ UNCHANGED <<net, nx, nstep, ngrad>>
    /\ UNCHANGED <<matrixVars, gradVars, actVars, lossVars, memVars, gateVars, mnistVars>>

\* let a2 = z1.dot(&self.w2) + &self.b2;
PredictA2 ==
    /\ npc = "nd_a2"
    /\ Advance(NdAffine(nout, net.w2, net.b2), "nd_softmax")
    /\ UNCHANGED <<net, nx, nstep, ngrad>>
    /\ UNCHANGED <<matrixVars, gradVars, actVars, lossVars, memVars, gateVars, mnistVars>>

\* softmax(&a2)
PredictSoftmax ==
    /\ npc = "nd_softmax"
    /\ Advance(NdSoftmax(nout), "returned")
    /\ UNCHANGED <<net, nx, nstep, ngrad>>
    /\ UNCHANGED <<matrixVars, gradVars, actVars, lossVars, memVars, gateVars, mnistVars>>

\* ---- SimpleNetMatrix::predict, statement by statement ------------------------
\* let a1 = x.dot(&self.w1).add(&self.b1);
MatrixPredictA1 ==
    /\ npc = "built" /\ net.backend = "matrix"
    /\ \E xin \in NetInputs :
          /\ nx' = xin
          /\ Advance(MxAffine(xin, net.w1, net.b1), "mx_z1")
    /\ UNCHANGED <<net, nstep, ngrad>>
    /\ UNCHANGED <<matrixVars, gradVars, actVars, lossVars, memVars, gateVars, mnistVars>>

\* let z1 = sigmoid_matrix(&a1);
MatrixPredictZ1 ==
    /\ npc = "mx_z1"
    /\ Advance(MxSigmoid(nout), "mx_a2")
    /\ UNCHANGED <<net, nx, nstep, ngrad>>
    /\ UNCHANGED <<matrixVars, gradVars, actVars, lossVars, memVars, gateVars, mnistVars>>

\* let a2 = z1.dot(&self.w2).add(&self.b2);
MatrixPredictA2 ==
    /\ npc = "mx_a2"
    /\ Advance(MxAffine(nout, net.w2, net.b2), "mx_softmax")
    /\ UNCHANGED <<net, nx, nstep, ngrad>>
    /\ UNCHANGED <<matrixVars, gradVars, actVars, lossVars, memVars, gateVars, mnistVars>>

\* softmax_matrix(&a2)
MatrixPredictSoftmax ==
    /\ npc = "mx_softmax"
    /\ Advance(MxSoftmax(nout), "returned")
    /\ UNCHANGED <<net, nx, nstep, ngrad>>
    /\ UNCHANGED <<matrixVars, gradVars, actVars, lossVars, memVars, gateVars, mnistVars>>

(***************************************************************************)
(*                 the training loop (train_simple.rs)                      *)
(***************************************************************************)
\* array![[0.6, 0.9]] and array![[0.0, 1.0]] (in tenths), as wide as the
\* network's input and output
TrainX(n) ==
    [rows |-> 1, cols |-> n.input_size,
     data |-> <<[j \in 1..n.input_size |-> 3 + 3 * j]>>]
TrainT(n) ==
    [rows |-> 1, cols |-> n.output_size,
     data |-> <<[j \in 1..n.output_size |-> IF j = n.output_size THEN 10 ELSE 0]>>]

\* for step in 0..5
TrainSteps == 5

\* net.predict(x), the whole method; NoMatrix stands for a panic
NdPredict(n, xin) ==
    LET a1 == NdAffine(xin, n.w1, n.b1)
        z1 == IF a1 = NoMatrix THEN NoMatrix ELSE NdSigmoid(a1)
        a2 == IF z1 = NoMatrix THEN NoMatrix ELSE NdAffine(z1, n.w2, n.b2)
    IN  IF a2 = NoMatrix THEN NoMatrix ELSE NdSoftmax(a2)

\* loss_fn(net, x, t) panics: in predict, in t * log_y, or in mean().unwrap()
LossFnPanics(n, xin, tg) ==
    LET yv == NdPredict(n, xin)
    IN  \/ yv = NoMatrix
        \/ ~Broadcastable(tg, yv)
        \/ CoBroadcastAxis(tg.rows, yv.rows) = 0

\* Array::zeros(x.raw_dim()): the shape of grad
\* (faulty variant: the two axes exchanged)
RawDimTransposed(a) == <<a.cols, a.rows>>
RawDim(a) == <<a.rows, a.cols>>

\* numerical_gradient(|w| { cloned.<name> = w.clone(); loss_fn(&cloned, &x, &t) },
\*                    &net.<name>):
\* the closure runs loss_fn for every entry of the parameter; the entry at
\* index (i, j) is the central difference of the loss in that entry, taken
\* at the parameters of this moment (updates counts them)
NumericalGradientOf(name, n, step) ==
    IF n[name].rows * n[name].cols > 0 /\ LossFnPanics(n, TrainX(n), TrainT(n))
      THEN NoMatrix
      ELSE [rows |-> RawDim(n[name])[1], cols |-> RawDim(n[name])[2],
            data |-> [i \in 1..RawDim(n[name])[1] |-> [j \in 1..RawDim(n[name])[2] |->
                        [param |-> name, idx |-> <<i, j>>, step |-> step,
                         seen |-> n.updates]]]]

\* (faulty variant: the gradient is subtracted twice)
UpdatedTwice(param, g) ==
    IF ~Broadcastable(param, g) THEN NoMatrix
    ELSE LET pb == BroadcastWith(param, g)
             gb == BroadcastWith(g, param)
         IN  [pb EXCEPT !.data = [i \in 1..pb.rows |-> [j \in 1..pb.cols |->
                  [v0 |-> pb.data[i][j].v0,
                   sub |-> pb.data[i][j].sub \o <<gb.data[i][j], gb.data[i][j]>>]]]]
\* &net.<name> + &grad.mapv(|v| -lr * v): ndarray arithmetic in the
\* broadcast shape of the two arrays; an entry keeps its initial value v0 and
\* the gradient entries subtracted from it (each times lr = 0.1), in order
Updated(param, g) ==
    IF ~Broadcastable(param, g) THEN NoMatrix
    ELSE LET pb == BroadcastWith(param, g)
             gb == BroadcastWith(g, param)
         IN  [pb EXCEPT !.data = [i \in 1..pb.rows |-> [j \in 1..pb.cols |->
                  [v0 |-> pb.data[i][j].v0,
                   sub |-> Append(pb.data[i][j].sub, gb.data[i][j])]]]]

NoGrads == [w1 |-> NoMatrix, b1 |-> NoMatrix, w2 |-> NoMatrix, b2 |-> NoMatrix]
ParamIndex(name) ==
    CASE name = "w1" -> 1 [] name = "b1" -> 2 [] name = "w2" -> 3 [] OTHER -> 4

\* let mut net = SimpleNet::new(..); the loop is entered
TrainEnter ==
    /\ npc = "built" /\ net.backend = "ndarray"
    /\ nx' = TrainX(net)
    /\ nstep' = 0
    /\ ngrad' = NoGrads
    /\ npc' = "loss_before"
    /\ UNCHANGED <<net, nout>>
    /\ UNCHANGED <<matrixVars, gradVars, actVars, lossVars, memVars, gateVars, mnistVars>>

\* let loss_before = loss_fn(&net, &x, &t);
TrainLossBefore ==
    /\ npc = "loss_before"
    /\ nstep < TrainSteps
    /\ npc' = IF LossFnPanics(net, nx, TrainT(net)) THEN "train_panicked" ELSE "grad_w1"
    /\ UNCHANGED <<net, nx, nout, nstep, ngrad>>
    /\ UNCHANGED <<matrixVars, gradVars, actVars, lossVars, memVars, gateVars, mnistVars>>

\* let grad_<name> = numerical_gradient(.., &net.<name>);
TrainGrad(name, here, next) ==
    /\ npc = here
    /\ LET g == NumericalGradientOf(name, net, nstep)
       IN  /\ ngrad' = [ngrad EXCEPT ![name] = g]
           /\ npc' = IF g = NoMatrix THEN "train_panicked" ELSE next
    /\ UNCHANGED <<net, nx, nout, nstep>>
    /\ UNCHANGED <<matrixVars, gradVars, actVars, lossVars, memVars, gateVars, mnistVars>>

TrainGradW1 == TrainGrad("w1", "grad_w1", "grad_b1")
TrainGradB1 == TrainGrad("b1", "grad_b1", "grad_w2")
TrainGradW2 == TrainGrad("w2", "grad_w2", "grad_b2")
TrainGradB2 == TrainGrad("b2", "grad_b2", "update_w1")

\* net.<name> = &net.<name> + &grad_<name>.mapv(|v| -lr * v);
TrainUpdate(name, here, next) ==
    /\ npc = here
    /\ LET u == Updated(net[name], ngrad[name])
       IN  IF u = NoMatrix
             THEN npc' = "train_panicked" /\ UNCHANGED net
             ELSE /\ net' = [net EXCEPT ![name] = u,
                                        !.updates[ParamIndex(name)] = @ + 1]
                  /\ npc' = next
    /\ UNCHANGED <<nx, nout, nstep, ngrad>>
    /\ UNCHANGED <<matrixVars, gradVars, actVars, lossVars, memVars, gateVars, mnistVars>>

TrainUpdateW1 == TrainUpdate("w1", "update_w1", "update_b1")
TrainUpdateB1 == TrainUpdate("b1", "update_b1", "update_w2")
TrainUpdateW2 == TrainUpdate("w2", "update_w2", "update_b2")
TrainUpdateB2 == TrainUpdate("b2", "update_b2", "next_step")

\* the end of the loop body: the gradients go out of scope, step advances
TrainNextStep ==
    /\ npc = "next_step"
    /\ nstep' = nstep + 1
    /\ ngrad' = NoGrads
    /\ npc' = "loss_before"
    /\ UNCHANGED <<net, nx, nout>>
    /\ UNCHANGED <<matrixVars, gradVars, actVars, lossVars, memVars, gateVars, mnistVars>>

\* let final_loss = loss_fn(&net, &x, &t);
TrainFinalLoss ==
    /\ npc = "loss_before"
    /\ nstep = TrainSteps
    /\ npc' = IF LossFnPanics(net, nx, TrainT(net)) THEN "train_panicked" ELSE "trained"
    /\ UNCHANGED <<net, nx, nout, nstep, ngrad>>
    /\ UNCHANGED <<matrixVars, gradVars, actVars, lossVars, memVars, gateVars, mnistVars>>

NetIdle ==
    /\ net = NoNet /\ nx = NoMatrix /\ nout = NoMatrix /\ npc = "idle"
    /\ nstep = 0 /\ ngrad = NoGrads

NetInit ==
    /\ net = NoNet
    /\ nx = NoMatrix
    /\ nout = NoMatrix
    /\ npc = "start"
    /\ nstep = 0
    /\ ngrad = NoGrads

(***************************************************************************)
(*        Matrix values and the storage they own (matrix.rs)               *)
(***************************************************************************)
\* A Matrix owns a Vec of rows, each row a Vec<f64> of its own.  Here every
\* row is a cell of `heap` and a Matrix holds the addresses of its rows, so
\* that two matrices share storage exactly when they hold a common address.
\* The operations are whole methods: new, from_vec, dot, add and map put
\* their result in hres, and the result can become the receiver a or the
\* argument b of the next operation.

\* largest number of operations in one sequence
MaxOps == 3

\* the rows `rowSeq` placed in fresh cells
Alloc(h, rowSeq) ==
    [heap |-> h \o rowSeq, data |-> [i \in 1..Len(rowSeq) |-> Len(h) + i]]

\* the Matrix m read through its addresses
Load(h, m) ==
    [rows |-> m.rows, cols |-> m.cols,
     data |-> [i \in 1..Len(m.data) |-> h[m.data[i]]]]

\* the outcome of a method: the storage after it and the Matrix returned
\* (NoMatrix after a panic)
Outcome(h, m) == [heap |-> h, m |-> m]

\* Matrix::new(rows, cols, val)
MemNew(h, rows, cols, val) ==
    LET al == Alloc(h, MatrixNew(rows, cols, val).data)
    IN  Outcome(al.heap, [rows |-> rows, cols |-> cols, data |-> al.data])

\* Matrix::from_vec(data): the rows of `data` become the rows of the Matrix
MemFromVec(h, data) ==
    IF FromVecPanics(data) THEN Outcome(h, NoMatrix)
    ELSE LET al == Alloc(h, data)
         IN  Outcome(al.heap, [FromVec(data) EXCEPT !.data = al.data])

\* the Vec<Vec<f64>> values handed to from_vec: no rows, empty rows,
\* rectangular ones, and rows of unequal length
VecInputs ==
    {<<>>, <<<<>>>>, <<<<1>>>>, <<<<1, 2>>>>, <<<<1>>, <<2>>>>,
     <<<<1, 2>>, <<3, 4>>>>, <<<<1, 2>>, <<3>>>>, <<<<1>>, <<2, 3>>>>}
IsRagged(data) == \E i \in 1..Len(data) : Len(data[i]) # Len(data[1])

\* ---- dot -----------------------------------------------------------------
\* an index of the loop nest falls outside a Vec: the method panics
DotOutOfBounds(s, o) ==
    \E n \in 0..(DotIterations(s, o) - 1) :
        LET i == DotI(s, o, n) + 1
            j == DotJ(s, o, n) + 1
            k == DotK(s, o, n) + 1
        IN  ~(/\ i <= Len(s.data) /\ k <= Len(s.data[i])
              /\ k <= Len(o.data) /\ j <= Len(o.data[k]))

RECURSIVE DotEntry(_, _, _, _, _)
\* result.data[i][j] after the bodies k = 1..n of the innermost loop
DotEntry(s, o, i, j, n) ==
    IF n = 0 THEN 0
    ELSE DotAccumulate(DotEntry(s, o, i, j, n - 1), s.data[i][n] * o.data[n][j])

\* self.dot(other), the whole method
MemDot(h, a, b) ==
    LET s == Load(h, a)
        o == Load(h, b)
    IN  IF ~DotShapeOk(s, o) \/ DotOutOfBounds(s, o) THEN Outcome(h, NoMatrix)
        ELSE LET al == Alloc(h, [i \in 1..s.rows |-> [j \in 1..o.cols |->
                                    DotEntry(s, o, i, j, s.cols)]])
             IN  Outcome(al.heap, [rows |-> s.rows, cols |-> o.cols, data |-> al.data])

\* ---- add -----------------------------------------------------------------
\* self.clone(): every row copied to a cell of its own
\* (faulty variant: the copy holds the rows of the original)
CloneVecShared(h, data) == [heap |-> h, data |-> data]
CloneVec(h, data) == Alloc(h, [i \in 1..Len(data) |-> h[data[i]]])

\* result.data[i][j] += ... for i < self.rows, j < self.cols reaches outside
\* a row of result or of other: the method panics
AddOutOfBounds(s, o, broadcast) ==
    \E i \in 1..s.rows : \E j \in 1..s.cols :
        \/ i > Len(s.data) \/ j > Len(s.data[i])
        \/ (IF broadcast THEN 1 ELSE i) > Len(o.data)
        \/ j > Len(o.data[IF broadcast THEN 1 ELSE i])

\* the rows of result after the loops: the entries j < self.cols of every
\* row have other's entry added
AddedRow(s, o, i, broadcast) ==
    [j \in 1..Len(s.data[i]) |->
        IF j > s.cols THEN s.data[i][j]
        ELSE IF broadcast THEN AddBroadcastEntry(s, o, i, j)
        ELSE s.data[i][j] + o.data[i][j]]

\* self.add(other), the whole method
MemAdd(h, a, b) ==
    LET s == Load(h, a)
        o == Load(h, b)
        broadcast == ~SameShape(s, o)
    IN  IF ~SameShape(s, o) /\ ~AddBroadcastable(s, o) THEN Outcome(h, NoMatrix)
        ELSE IF AddOutOfBounds(s, o, broadcast) THEN Outcome(h, NoMatrix)
        ELSE LET cl == CloneVec(h, a.data)
                 written == [q \in 1..Len(cl.heap) |->
                               IF \E i \in 1..Len(cl.data) : cl.data[i] = q
                                 THEN AddedRow(s, o,
                                        CHOOSE i \in 1..Len(cl.data) : cl.data[i] = q,
                                        broadcast)
                                 ELSE cl.heap[q]]
             IN  Outcome(written, [rows |-> a.rows, cols |-> a.cols, data |-> cl.data])

\* ---- map -----------------------------------------------------------------
\* the closures handed to map
Fns == {"negate", "increment"}
ApplyFn(fn, v) == IF fn = "negate" THEN 0 - v ELSE v + 1

\* self.map(func), the whole method: the mapped rows, then Matrix::from_vec
MemMap(h, a, fn) ==
    LET s == Load(h, a)
    IN  MemFromVec(h, [i \in 1..Len(s.data) |-> [j \in 1..Len(s.data[i]) |->
                          ApplyFn(fn, s.data[i][j])]])

\* ---- the operations ---------------------------------------------------------
\* a and b, read through their addresses, as the operation finds them
Snapshot(h, a, b, ragged) ==
    [a |-> Load(h, a), b |-> Load(h, b), ragged |-> ragged]

\* an operation ends: its outcome is recorded
Finish(name, out, ragged) ==
    /\ hop' = name
    /\ heap' = out.heap
    /\ hres' = out.m
    /\ hpc' = IF out.m = NoMatrix THEN "panicked" ELSE "returned"
    /\ hsnap' = Snapshot(heap, ha, hb, ragged)
    /\ hn' = hn + 1
    /\ UNCHANGED <<ha, hb>>
    /\ UNCHANGED <<matrixVars, gradVars, actVars, lossVars, netVars, gateVars, mnistVars>>

\* Matrix::new(rows, cols, val); the fill value numbers the calls, so that two
\* matrices made by new never hold the same entries
NewMatrix ==
    /\ hpc = "ready" /\ hn < MaxOps
    /\ \E r \in Dims, c \in Dims :
          /\ Finish("new", MemNew(heap, r, c, hn + 1), hsnap.ragged)
          /\ hcalls' = [fn |-> "new", args |-> <<r, c, hn + 1>>]

\* Matrix::from_vec(data)
FromVecMatrix ==
    /\ hpc = "ready" /\ hn < MaxOps
    /\ \E data \in VecInputs :
          Finish("from_vec", MemFromVec(heap, data), hsnap.ragged \/ IsRagged(data))
    /\ UNCHANGED hcalls

\* a.dot(&b)
DotMatrix ==
    /\ hpc = "ready" /\ hn < MaxOps
    /\ ha # NoMatrix /\ hb # NoMatrix
    /\ Finish("dot", MemDot(heap, ha, hb), hsnap.ragged)
    /\ UNCHANGED hcalls

\* a.add(&b)
AddMatrix ==
    /\ hpc = "ready" /\ hn < MaxOps
    /\ ha # NoMatrix /\ hb # NoMatrix
    /\ Finish("add", MemAdd(heap, ha, hb), hsnap.ragged)
    /\ UNCHANGED hcalls

\* a.map(func): func is called with every entry, row by row
MapMatrix ==
    /\ hpc = "ready" /\ hn < MaxOps
    /\ ha # NoMatrix
    /\ \E fn \in Fns :
          /\ Finish("map", MemMap(heap, ha, fn), hsnap.ragged)
          /\ hcalls' = [fn |-> fn, args |-> Flatten(Load(heap, ha).data)]

\* result.data[i][j] = 7.0, by the owner of the returned Matrix
MutateResult ==
    /\ hpc = "returned"
    /\ \E i \in 1..Len(hres.data) : \E j \in 1..Len(heap[hres.data[i]]) :
          heap' = [heap EXCEPT ![hres.data[i]][j] = 7]
    /\ hpc' = "mutated"
    /\ UNCHANGED <<ha, hb, hres, hop, hsnap, hcalls, hn>>
    /\ UNCHANGED <<matrixVars, gradVars, actVars, lossVars, netVars, gateVars, mnistVars>>

\* let a = result;
BindA ==
    /\ hpc = "returned"
    /\ ha' = hres
    /\ hres' = NoMatrix
    /\ hpc' = "ready"
    /\ UNCHANGED <<heap, hb, hop, hsnap, hcalls, hn>>
    /\ UNCHANGED <<matrixVars, gradVars, actVars, lossVars, netVars, gateVars, mnistVars>>

\* let b = result;
BindB ==
    /\ hpc = "returned"
    /\ hb' = hres
    /\ hres' = NoMatrix
    /\ hpc' = "ready"
    /\ UNCHANGED <<heap, ha, hop, hsnap, hcalls, hn>>
    /\ UNCHANGED <<matrixVars, gradVars, actVars, lossVars, netVars, gateVars, mnistVars>>

NoCalls == [fn |-> "none", args |-> <<>>]
NoSnapshot == [a |-> NoMatrix, b |-> NoMatrix, ragged |-> FALSE]

MemIdle ==
    /\ heap = <<>> /\ ha = NoMatrix /\ hb = NoMatrix /\ hres = NoMatrix
    /\ hop = "none" /\ hpc = "idle" /\ hsnap = NoSnapshot /\ hcalls = NoCalls
    /\ hn = 0

MemInit ==
    /\ heap = <<>>
    /\ ha = NoMatrix
    /\ hb = NoMatrix
    /\ hres = NoMatrix
    /\ hop = "none"
    /\ hpc = "ready"
    /\ hsnap = NoSnapshot
    /\ hcalls = NoCalls
    /\ hn = 0

(***************************************************************************)
(*                    perceptron gates (perceptron.rs)                      *)
(***************************************************************************)
\* Numbers.  Arguments, weights and biases are f64 values with one decimal,
\* kept in tenths (5 is 0.5); a weighted sum x1*w1 + x2*w2 + bias is kept in
\* hundredths.  For the arguments drawn here no exact sum is 0 and the
\* smallest is 0.05 in magnitude, far above f64 rounding, so the sign the
\* model computes is the sign the f64 expression has.

\* the arguments drawn for x1 and x2: 0.0, 0.5 and 1.0
GateArgs == {0, 5, 10}

\* an output 0.0 or 1.0, in tenths
Zero == 0
One == 10

\* step_function(x): if x > 0.0 { 1.0 } else { 0.0 }
StepFunction(v) == IF v > 0 THEN One ELSE Zero

\* x1 * w1 + x2 * w2 + bias, in hundredths
WeightedSum(x1, x2, w1, w2, bias) == x1 * w1 + x2 * w2 + 10 * bias

\* and_gate(x1, x2): w1 = 0.5, w2 = 0.5, bias = -0.7
AndGate(x1, x2) == StepFunction(WeightedSum(x1, x2, 5, 5, -7))
\* nand_gate(x1, x2): w1 = -0.5, w2 = -0.5, bias = 0.7
NandGate(x1, x2) == StepFunction(WeightedSum(x1, x2, -5, -5, 7))
\* (faulty variant: the bias of and_gate)
OrGateAndBias(x1, x2) == StepFunction(WeightedSum(x1, x2, 5, 5, -7))
\* or_gate(x1, x2): w1 = 0.5, w2 = 0.5, bias = -0.2
OrGate(x1, x2) == StepFunction(WeightedSum(x1, x2, 5, 5, -2))

\* gout maps the gates that have returned to their outputs; gxs.s holds the
\* locals of xor_gate assigned so far, <<s1>> and then <<s1, s2>>
NoOutputs == <<>>
HasReturned(gate) == gate \in DOMAIN gout
NoLocals == [pc |-> "start", s |-> <<>>]

\* and_gate(x1, x2)
and_gate ==
    /\ gxs.pc # "idle" /\ ~HasReturned("and")
    /\ gout' = gout @@ ("and" :> AndGate(gin[1], gin[2]))
    /\ UNCHANGED <<gin, gxs>>
    /\ UNCHANGED <<matrixVars, gradVars, actVars, lossVars, netVars, memVars, mnistVars>>

\* nand_gate(x1, x2)
nand_gate ==
    /\ gxs.pc # "idle" /\ ~HasReturned("nand")
    /\ gout' = gout @@ ("nand" :> NandGate(gin[1], gin[2]))
    /\ UNCHANGED <<gin, gxs>>
    /\ UNCHANGED <<matrixVars, gradVars, actVars, lossVars, netVars, memVars, mnistVars>>

\* or_gate(x1, x2)
or_gate ==
    /\ gxs.pc # "idle" /\ ~HasReturned("or")
    /\ gout' = gout @@ ("or" :> OrGate(gin[1], gin[2]))
    /\ UNCHANGED <<gin, gxs>>
    /\ UNCHANGED <<matrixVars, gradVars, actVars, lossVars, netVars, memVars, mnistVars>>

\* xor_gate: let s1 = nand_gate(x1, x2);
XorNand ==
    /\ gxs.pc = "start"
    /\ gxs' = [gxs EXCEPT !.pc = "s1", !.s = <<NandGate(gin[1], gin[2])>>]
    /\ UNCHANGED <<gin, gout>>
    /\ UNCHANGED <<matrixVars, gradVars, actVars, lossVars, netVars, memVars, mnistVars>>

\* xor_gate: let s2 = or_gate(x1, x2);
XorOr ==
    /\ gxs.pc = "s1"
    /\ gxs' = [gxs EXCEPT !.pc = "s2", !.s = Append(@, OrGate(gin[1], gin[2]))]
    /\ UNCHANGED <<gin, gout>>
    /\ UNCHANGED <<matrixVars, gradVars, actVars, lossVars, netVars, memVars, mnistVars>>

\* xor_gate: let y = and_gate(s1, s2); y
XorAnd ==
    /\ gxs.pc = "s2"
    /\ gxs' = [gxs EXCEPT !.pc = "returned"]
    /\ gout' = gout @@ ("xor" :> AndGate(gxs.s[1], gxs.s[2]))
    /\ UNCHANGED gin
    /\ UNCHANGED <<matrixVars, gradVars, actVars, lossVars, netVars, memVars, mnistVars>>

GateIdle ==
    /\ gin = <<0, 0>> /\ gout = NoOutputs /\ gxs = [NoLocals EXCEPT !.pc = "idle"]

GateInit ==
    /\ gin \in GateArgs \X GateArgs
    /\ gout = NoOutputs
    /\ gxs = NoLocals

(***************************************************************************)
(*                        MNIST files (mnist.rs)                            *)
(***************************************************************************)
\* The reader is BufReader<GzDecoder<File>>: mfile is the sequence of bytes it
\* yields before it ends (a file that cannot be opened or decoded further
\* yields an I/O error where its bytes end).

\* most images a file of the model declares
MaxImages == 2

\* the four bytes of a u32, most significant first
BE32(v) == <<v \div 16777216, (v \div 65536) % 256, (v \div 256) % 256, v % 256>>

\* (faulty variant: least significant byte first)
ReadU32LittleEndian(file, pos) ==
    file[pos + 1] + 256 * file[pos + 2] + 65536 * file[pos + 3]
    + 16777216 * file[pos + 4]
\* reader.read_u32::<BigEndian>() with the reader at pos
ReadU32(file, pos) ==
    16777216 * file[pos + 1] + 65536 * file[pos + 2] + 256 * file[pos + 3]
    + file[pos + 4]

\* read_exact / read_u32 succeed: `need` more bytes are there
HasBytes(file, pos, need) == Len(file) - pos >= need

\* the buffer after reader.read_exact(&mut buffer): the next `need` bytes
\* (what is left of the file when it is shorter)
Buffer(file, pos, need) ==
    [q \in 1..Min(need, Len(file) - pos) |-> file[pos + q]]

\* 0x00000803 and 0x00000801
ImagesMagic == 2051
LabelsMagic == 2049
\* 0x00000803 written least significant byte first
SwappedMagic == 3 * 16777216 + 8 * 65536
\* the declared side of an image
Side == 28

\* ---- the files the model draws ----------------------------------------
Magics == {ImagesMagic, LabelsMagic, SwappedMagic}
Pixels(k) == [q \in 1..k |-> q % 256]
\* an image file declaring n images of rows x cols, with one byte too many
ImageFile(magic, n, rows, cols) ==
    BE32(magic) \o BE32(n) \o BE32(rows) \o BE32(cols) \o Pixels(n * rows * cols + 1)
\* a label file declaring n labels, followed by the bytes `labels`
LabelFile(magic, n, labels) == BE32(magic) \o BE32(n) \o labels

LabelBytes == {0, 1, 9, 10}
LabelSeqs == UNION {[1..n -> LabelBytes] : n \in 0..MaxLen}

\* the first k bytes of a file
Prefix(file, k) == SubSeq(file, 1, Min(k, Len(file)))
\* where a file is cut: inside the header, one byte short of the declared
\* payload, exactly at its end, and not at all
Cuts(file) ==
    {0, 3, 4, 7, 8, 12, 15, 16, Len(file) - 2, Len(file) - 1, Len(file)}
        \cap (0..Len(file))

ImageFiles ==
    UNION {{Prefix(ImageFile(m, n, r, c), k) : k \in Cuts(ImageFile(m, n, r, c))} :
             m \in Magics, n \in 0..MaxImages, r \in {Side, Side - 1}, c \in {Side, Side + 1}}
LabelFiles ==
    UNION {{Prefix(LabelFile(m, Len(l), l), k) : k \in Cuts(LabelFile(m, Len(l), l))} :
             m \in Magics, l \in LabelSeqs}
Files == ImageFiles \cup LabelFiles

\* ---- Result<_, MnistError> --------------------------------------------------
NoResult == [st |-> "none", err |-> "none", shape |-> <<>>, data |-> <<>>]
Ok(shape, data) == [st |-> "Ok", err |-> "none", shape |-> shape, data |-> data]
Err(e) == [st |-> "Err", err |-> e, shape |-> <<>>, data |-> <<>>]
NoHeader == [magic |-> 0, count |-> 0, rows |-> 0, cols |-> 0]

\* return Err(e) / the ? operator
Fail(e) ==
    /\ mres' = Err(e)
    /\ mpc' = "returned"

\* ---- load_images ---------------------------------------------------------------
\* let magic = reader.read_u32()?; if magic != 0x00000803 { return Err(..) }
LoadImagesMagic ==
    /\ mpc = "ready"
    /\ mfn' = "load_images"
    /\ IF ~HasBytes(mfile, 0, 4)
         THEN Fail("IoError") /\ UNCHANGED <<mpos, mhdr>>
         ELSE /\ mpos' = 4
              /\ mhdr' = [mhdr EXCEPT !.magic = ReadU32(mfile, 0)]
              /\ IF ReadU32(mfile, 0) # ImagesMagic
                   THEN Fail("InvalidMagicNumber")
                   ELSE mpc' = "header" /\ UNCHANGED mres
    /\ UNCHANGED <<mfile, moh, mi>>
    /\ UNCHANGED <<matrixVars, gradVars, actVars, lossVars, netVars, memVars, gateVars>>

\* num_images, num_rows, num_cols are read, then the dimensions are compared
LoadImagesHeader ==
    /\ mpc = "header" /\ mfn = "load_images"
    /\ IF ~HasBytes(mfile, mpos, 12)
         THEN \* one of the three reads meets the end of the file
              /\ Fail("IoError")
              /\ mpos' = Len(mfile)
              /\ UNCHANGED mhdr
         ELSE /\ mpos' = mpos + 12
              /\ mhdr' = [mhdr EXCEPT !.count = ReadU32(mfile, mpos),
                                      !.rows = ReadU32(mfile, mpos + 4),
                                      !.cols = ReadU32(mfile, mpos + 8)]
              /\ IF ReadU32(mfile, mpos + 4) # Side \/ ReadU32(mfile, mpos + 8) # Side
                   THEN Fail("InvalidDimensions")
                   ELSE mpc' = "payload" /\ UNCHANGED mres
    /\ UNCHANGED <<mfile, mfn, moh, mi>>
    /\ UNCHANGED <<matrixVars, gradVars, actVars, lossVars, netVars, memVars, gateVars>>

\* the buffer is read and becomes the (num_images, num_rows * num_cols) array
LoadImagesPayload ==
    /\ mpc = "payload" /\ mfn = "load_images"
    /\ LET need == mhdr.count * mhdr.rows * mhdr.cols
       IN  IF ~HasBytes(mfile, mpos, need)
             THEN Fail("IoError") /\ mpos' = Len(mfile)
             ELSE LET images == Buffer(mfile, mpos, need)
                  IN  /\ mpos' = mpos + Len(images)
                      /\ IF Len(images) # mhdr.count * (mhdr.rows * mhdr.cols)
                           THEN Fail("InvalidDimensions")
                           ELSE /\ mres' = Ok(<<mhdr.count, mhdr.rows * mhdr.cols>>, images)
                                /\ mpc' = "returned"
    /\ UNCHANGED <<mfile, mfn, mhdr, moh, mi>>
    /\ UNCHANGED <<matrixVars, gradVars, actVars, lossVars, netVars, memVars, gateVars>>

\* ---- load_labels ---------------------------------------------------------------
\* let magic = reader.read_u32()?; if magic != 0x00000801 { return Err(..) }
LoadLabelsMagic ==
    /\ mpc = "ready"
    /\ mfn' = "load_labels"
    /\ IF ~HasBytes(mfile, 0, 4)
         THEN Fail("IoError") /\ UNCHANGED <<mpos, mhdr>>
         ELSE /\ mpos' = 4
              /\ mhdr' = [mhdr EXCEPT !.magic = ReadU32(mfile, 0)]
              /\ IF ReadU32(mfile, 0) # LabelsMagic
                   THEN Fail("InvalidMagicNumber")
                   ELSE mpc' = "payload" /\ UNCHANGED mres
    /\ UNCHANGED <<mfile, moh, mi>>
    /\ UNCHANGED <<matrixVars, gradVars, actVars, lossVars, netVars, memVars, gateVars>>

\* num_labels is read, then the buffer, which becomes the array
LoadLabelsPayload ==
    /\ mpc = "payload" /\ mfn = "load_labels"
    /\ IF ~HasBytes(mfile, mpos, 4)
         THEN Fail("IoError") /\ mpos' = Len(mfile) /\ UNCHANGED mhdr
         ELSE LET num_labels == ReadU32(mfile, mpos)
              IN  /\ mhdr' = [mhdr EXCEPT !.count = num_labels]
                  /\ IF ~HasBytes(mfile, mpos + 4, num_labels)
                       THEN Fail("IoError") /\ mpos' = Len(mfile)
                       ELSE LET buffer == Buffer(mfile, mpos + 4, num_labels)
                            IN  /\ mpos' = mpos + 4 + Len(buffer)
                                /\ mres' = Ok(<<Len(buffer)>>, buffer)
                                /\ mpc' = "returned"
    /\ UNCHANGED <<mfile, mfn, moh, mi>>
    /\ UNCHANGED <<matrixVars, gradVars, actVars, lossVars, netVars, memVars, gateVars>>

\* ---- labels_to_one_hot, called with the labels load_labels returned -----------
\* let num_classes = 10;
NumClasses == 10

\* (faulty variant: the column before)
HotColumnBefore(label) == label
\* the position of column `label as usize` in a row
HotColumn(label) == label + 1

\* let mut one_hot = Array2::<f32>::zeros((labels.len(), num_classes));
OneHotZeros ==
    /\ mpc = "returned" /\ mfn = "load_labels" /\ mres.st = "Ok"
    /\ moh' = [rows |-> Len(mres.data), cols |-> NumClasses,
                data |-> [i \in 1..Len(mres.data) |-> [j \in 1..NumClasses |-> 0]]]
    /\ mi' = 0
    /\ mpc' = "one_hot"
    /\ UNCHANGED <<mfile, mfn, mpos, mhdr, mres>>
    /\ UNCHANGED <<matrixVars, gradVars, actVars, lossVars, netVars, memVars, gateVars>>

\* one body of the loop: one_hot[[i, label as usize]] = 1.0; an index
\* outside the array panics
OneHotSet ==
    /\ mpc = "one_hot"
    /\ mi < Len(mres.data)
    /\ LET label == mres.data[mi + 1]
       IN  IF label >= moh.cols
             THEN mpc' = "panicked" /\ UNCHANGED moh
             ELSE /\ moh' = [moh EXCEPT !.data[mi + 1][HotColumn(label)] = 1]
                  /\ UNCHANGED mpc
    /\ mi' = mi + 1
    /\ UNCHANGED <<mfile, mfn, mpos, mhdr, mres>>
    /\ UNCHANGED <<matrixVars, gradVars, actVars, lossVars, netVars, memVars, gateVars>>

\* the labels are exhausted: one_hot is returned
OneHotReturn ==
    /\ mpc = "one_hot"
    /\ mi = Len(mres.data)
    /\ mpc' = "one_hot_returned"
    /\ UNCHANGED <<mfile, mfn, mpos, mhdr, mres, moh, mi>>
    /\ UNCHANGED <<matrixVars, gradVars, actVars, lossVars, netVars, memVars, gateVars>>

MnistIdle ==
    /\ mfile = <<>> /\ mfn = "none" /\ mpos = 0 /\ mhdr = NoHeader
    /\ mres = NoResult /\ mpc = "idle" /\ moh = NoMatrix /\ mi = 0

MnistInit ==
    /\ mfile \in Files
    /\ mfn = "none"
    /\ mpos = 0
    /\ mhdr = NoHeader
    /\ mres = NoResult
    /\ mpc = "ready"
    /\ moh = NoMatrix
    /\ mi = 0

\* ---- the Matrix specification -------------------------------------------
MatrixInit ==
    /\ self \in Operands
    /\ other \in Operands
    /\ op = "none"
    /\ pc = "ready"
    /\ result = NoMatrix
    /\ t = 0

MatrixIdle ==
    /\ self = NoMatrix /\ other = NoMatrix /\ op = "none" /\ pc = "idle"
    /\ result = NoMatrix /\ t = 0

Init == MatrixInit /\ GradIdle /\ ActIdle /\ LossIdle /\ NetIdle /\ MemIdle
    /\ GateIdle /\ MnistIdle

Next == DotEnter \/ DotStep \/ DotReturn \/ Add

Spec == Init /\ [][Next]_vars

\* ---- the numerical_gradient specification ---------------------------------
InitGrad == MatrixIdle /\ GradInit /\ ActIdle /\ LossIdle /\ NetIdle /\ MemIdle
    /\ GateIdle /\ MnistIdle

NextGrad == GradEnter \/ GradIter \/ GradReturn

SpecGrad == InitGrad /\ [][NextGrad]_vars

\* numerical_gradient runs on the caller's thread: nothing suspends the loop,
\* and the closures of the model return
SpecGradLive == SpecGrad /\ WF_vars(NextGrad)

\* ---- the activation specification -------------------------------------------
InitAct == MatrixIdle /\ GradIdle /\ ActInit /\ LossIdle /\ NetIdle /\ MemIdle
    /\ GateIdle /\ MnistIdle

NextAct ==
    \/ sigmoid \/ sigmoid_matrix
    \/ SoftmaxClone \/ SoftmaxRow \/ SoftmaxReturn
    \/ SoftmaxMatrixNewVec \/ SoftmaxMatrixRow \/ SoftmaxMatrixFromVec

SpecAct == InitAct /\ [][NextAct]_vars

\* ---- the loss specification ---------------------------------------------------
InitLoss == MatrixIdle /\ GradIdle /\ ActIdle /\ LossInit /\ NetIdle /\ MemIdle
    /\ GateIdle /\ MnistIdle

NextLoss == mean_squared_error \/ cross_entropy_error \/ cross_entropy_error_optimized

SpecLoss == InitLoss /\ [][NextLoss]_vars

\* ---- the network specification ------------------------------------------------
InitNet == MatrixIdle /\ GradIdle /\ ActIdle /\ LossIdle /\ NetInit /\ MemIdle
    /\ GateIdle /\ MnistIdle

NextNet ==
    \/ SimpleNet_new \/ SimpleNetMatrix_new
    \/ PredictA1 \/ PredictZ1 \/ PredictA2 \/ PredictSoftmax
    \/ MatrixPredictA1 \/ MatrixPredictZ1 \/ MatrixPredictA2 \/ MatrixPredictSoftmax
    \/ TrainEnter \/ TrainLossBefore
    \/ TrainGradW1 \/ TrainGradB1 \/ TrainGradW2 \/ TrainGradB2
    \/ TrainUpdateW1 \/ TrainUpdateB1 \/ TrainUpdateW2 \/ TrainUpdateB2
    \/ TrainNextStep \/ TrainFinalLoss

SpecNet == InitNet /\ [][NextNet]_vars

\* ---- the specification of Matrix values and their storage --------------------
InitMem == MatrixIdle /\ GradIdle /\ ActIdle /\ LossIdle /\ NetIdle /\ MemInit
    /\ GateIdle /\ MnistIdle

NextMem ==
    \/ NewMatrix \/ FromVecMatrix \/ DotMatrix \/ AddMatrix \/ MapMatrix
    \/ MutateResult \/ BindA \/ BindB

SpecMem == InitMem /\ [][NextMem]_vars

\* ---- the specification of the perceptron gates ----------------------------------
InitGate ==
    MatrixIdle /\ GradIdle /\ ActIdle /\ LossIdle /\ NetIdle /\ MemIdle
    /\ GateInit /\ MnistIdle

NextGate == and_gate \/ nand_gate \/ or_gate \/ XorNand \/ XorOr \/ XorAnd

SpecGate == InitGate /\ [][NextGate]_vars

\* ---- the specification of the MNIST loader ------------------------------------------
InitMnist ==
    MatrixIdle /\ GradIdle /\ ActIdle /\ LossIdle /\ NetIdle /\ MemIdle
    /\ GateIdle /\ MnistInit

NextMnist ==
    \/ LoadImagesMagic \/ LoadImagesHeader \/ LoadImagesPayload
    \/ LoadLabelsMagic \/ LoadLabelsPayload
    \/ OneHotZeros \/ OneHotSet \/ OneHotReturn

SpecMnist == InitMnist /\ [][NextMnist]_vars


(***************************************************************************)
(*                    Claims about Matrix::dot and Matrix::add             *)
(***************************************************************************)
\* sum over k in 1..n of A[i][k] * B[k][j]
RECURSIVE SumOverK(_, _, _, _, _)
SumOverK(A, B, i, j, n) ==
    IF n = 0 THEN 0 ELSE SumOverK(A, B, i, j, n - 1) + A.data[i][n] * B.data[n][j]

TestA == Mat(2, 2, 0)
TestB == Mat(2, 2, 4)

\* C1: for A (r x n) and B (n x c), A.dot(B) does not fail and returns an
\* r x c matrix whose entry (i,j) is the sum over k of A[i][k]*B[k][j];
\* [[1,2],[3,4]] dot [[5,6],[7,8]] is [[19,22],[43,50]].
C1_DotIsMatrixProduct ==
    (op = "dot" /\ self.cols = other.rows) =>
        /\ pc # "panicked"
        /\ pc = "returned" =>
            /\ Shape(result) = <<self.rows, other.cols>>
            /\ Len(result.data) = self.rows
            /\ \A i \in 1..self.rows :
                /\ Len(result.data[i]) = other.cols
                /\ \A j \in 1..other.cols :
                     result.data[i][j] = SumOverK(self, other, i, j, self.cols)
            /\ (self.data = <<<<1, 2>>, <<3, 4>>>> /\ other.data = <<<<5, 6>>, <<7, 8>>>>)
                  => result.data = <<<<19, 22>>, <<43, 50>>>>

C1_Witness ==
    /\ op = "dot" /\ pc = "returned"
    /\ self = TestA /\ other = TestB
    /\ result.data = <<<<19, 22>>, <<43, 50>>>>

\* C2: dot with self.cols # other.rows fails at the start: it panics before
\* any accumulation is performed and there is no (partial) result.
C2_DotFailsFast ==
    (op = "dot" /\ self.cols # other.rows) =>
        (pc = "panicked" /\ t = 0 /\ result = NoMatrix)

C2_Witness ==
    /\ op = "dot" /\ pc = "panicked"
    /\ self.cols # other.rows
    /\ self.rows > 0 /\ self.cols > 0 /\ other.rows > 0 /\ other.cols > 0

\* C3: add returns a matrix of self's shape; with identical shapes entry (i,j)
\* is self[i][j] + other[i][j]; with a one-row other of the same column count
\* it is self[i][j] + other[0][j] for every row i (row broadcast).
C3_AddElementwiseOrBroadcast ==
    /\ (op = "add" /\ SameShape(self, other)) =>
          /\ pc = "returned"
          /\ Shape(result) = Shape(self)
          /\ Len(result.data) = self.rows
          /\ \A i \in 1..self.rows :
                /\ Len(result.data[i]) = self.cols
                /\ \A j \in 1..self.cols :
                     result.data[i][j] = self.data[i][j] + other.data[i][j]
    /\ (op = "add" /\ other.rows = 1 /\ other.cols = self.cols) =>
          /\ pc = "returned"
          /\ Shape(result) = Shape(self)
          /\ Len(result.data) = self.rows
          /\ \A i \in 1..self.rows :
                /\ Len(result.data[i]) = self.cols
                /\ \A j \in 1..self.cols :
                     result.data[i][j] = self.data[i][j] + other.data[1][j]

C3_Witness ==
    /\ op = "add" /\ pc = "returned"
    /\ self.rows = 2 /\ self.cols = 2 /\ other.rows = 1 /\ other.cols = 2
    /\ result.data[2][2] = self.data[2][2] + other.data[1][2]
    /\ other.data[1][2] # 0

\* C4: add fails, producing no matrix, for every shape pair that is neither
\* identical nor (other.rows = 1 and other.cols = self.cols).
C4_AddRejectsOtherShapes ==
    (op = "add" /\ ~SameShape(self, other)
                /\ ~(other.rows = 1 /\ other.cols = self.cols)) =>
        (pc = "panicked" /\ result = NoMatrix)

\* a one-row self with a multi-row other of the same width: no reverse broadcast
C4_Witness ==
    /\ op = "add" /\ pc = "panicked" /\ result = NoMatrix
    /\ self.rows = 1 /\ other.rows = 2 /\ self.cols = other.cols /\ self.cols > 0


(***************************************************************************)
(*                    Claims about numerical_gradient                       *)
(***************************************************************************)
\* 1 / H, from const H: f64 = 1e-4
HInv == 10000
\* 1 / 1e-3, the tolerance of the tests
TolInv == 1000

Abs(n) == IF n < 0 THEN 0 - n ELSE n

\* arr with only its q-th entry (row-major) changed by d * H
Bump(arr, q, d) == [arr EXCEPT !.data[q] = <<@[1], @[2] + d, @[3]>>]

\* (f(x with x[q] + h) - f(x with x[q] - h)) / (2h)
CentralDifference(fn, arr, q) ==
    [num |-> PSub(Call(fn, Bump(arr, q, 1)), Call(fn, Bump(arr, q, -1))),
     den |-> <<0, 2, 0>>]

\* |g - target| < 1e-3 for a fraction g = num / (d*H) and an integer target:
\* with e = num - target*d*H = e0 + e1*H + e2*H^2, a non-zero e0 alone makes
\* |e / (d*H)| >= 1/(d*H) - (small), so e0 must be 0, and then
\* |e1*H + e2*H^2| < d*H/1000  iff  |e1/H + e2| * 1000 < d/H.
WithinTol(g, target) ==
    LET e == PSub(g.num, PScale(target, g.den))
    IN  /\ g.den[1] = 0 /\ g.den[3] = 0 /\ g.den[2] > 0
        /\ e[1] = 0
        /\ Abs(e[2] * HInv + e[3]) * TolInv < g.den[2] * HInv

\* C5: numerical_gradient(f, x) returns an array of x's shape whose entry at
\* every index is (f(x + h at that index) - f(x - h at that index)) / (2h),
\* all other entries of x at their original values, for 1-D and 2-D arrays.
C5_GradIsCentralDifference ==
    gpc = "returned" =>
        /\ grad.shape = x0.shape
        /\ Len(grad.data) = Size(x0)
        /\ \A q \in 1..Size(x0) : grad.data[q] = CentralDifference(f, x0, q)

C5_Witness ==
    /\ gpc = "returned" /\ f = "SqSum"
    /\ x0.shape = <<2, 2>>
    /\ grad.data[4] = CentralDifference(f, x0, 4)
    /\ grad.data[4].num # PConst(0)

\* C6: every array handed to f differs from the original x in exactly one
\* entry: the (2k-1)-th call gets x with only entry k raised by h, the 2k-th
\* call x with only entry k lowered by h (nothing of an earlier index is left
\* in it), and x itself keeps its original values.
C6_PerturbationsIsolated ==
    /\ x = x0
    /\ \A n \in 1..Len(calls) :
          LET k == (n + 1) \div 2
              d == IF n % 2 = 1 THEN 1 ELSE -1
          IN  /\ calls[n].shape = x0.shape
              /\ Len(calls[n].data) = Len(x0.data)
              /\ Cardinality({q \in 1..Len(x0.data) : calls[n].data[q] # x0.data[q]}) = 1
              /\ calls[n] = Bump(x0, k, d)

C6_Witness ==
    /\ gpc = "returned"
    /\ Len(calls) = 6
    /\ calls[5] = Bump(x0, 3, 1) /\ calls[6] = Bump(x0, 3, -1)
    /\ x0.data[1] # PConst(0)

CountUpTo(B, n) == BagCardinality(Restrict(B, {k \in Exponents(B) : k <= n}))

\* every term of P can be paired with a term of Q of its own that is at least
\* as large: then (sum of e^-k, k in P) <= (sum of e^-k, k in Q)
Dominated(P, Q) == \A n \in Exponents(P) : CountUpTo(P, n) <= CountUpTo(Q, n)

\* a finite value in the closed interval [0, 1]
InUnitInterval(y) == y.kind = "fin" /\ Dominated(y.num, y.den)

\* a finite value strictly between 0 and 1
StrictlyInside(y) ==
    /\ y.kind = "fin"
    /\ y.num # EmptyBag
    /\ Dominated(y.num, y.den)
    /\ y.num # y.den

\* the value 1/2
IsHalf(y) == y.kind = "fin" /\ y.num # EmptyBag /\ y.den = y.num (+) y.num

RECURSIVE SumOfNumerators(_)
SumOfNumerators(row) ==
    IF row = <<>> THEN EmptyBag
    ELSE SumOfNumerators(SubSeq(row, 1, Len(row) - 1)) (+) row[Len(row)].num

\* 1,000,000 terms of size at most e^-37 sum to less than 1e-10
\* (1e6 * e^-37 = 8.6e-11): the tolerance of the tests
SumTolExponent == 37
SumTolTerms == 1000000

\* the entries of an output row sum to 1.0 within 1e-10: they share one
\* denominator D >= 1, and the sum N of their numerators is D plus at most
\* SumTolTerms terms of size at most e^-SumTolExponent
SumsToOne(row) ==
    LET D == IF row = <<>> THEN Unit ELSE row[1].den
        N == SumOfNumerators(row)
    IN  /\ \A j \in 1..Len(row) : row[j].kind = "fin" /\ row[j].den = D
        /\ Dominated(Unit, D)
        /\ D \sqsubseteq N
        /\ \A k \in Exponents(N (-) D) : k >= SumTolExponent
        /\ BagCardinality(N (-) D) <= SumTolTerms

AllEqual(row) == \A j \in 1..Len(row) : row[j] = row[1]

IsSoftmax == afn \in {"softmax", "softmax_matrix"}
IsSigmoid == afn \in {"sigmoid", "sigmoid_matrix"}

\* C8 (as amended): for every NON-EMPTY row of finite inputs, the row of
\* softmax(x) (ndarray and Matrix backends) sums to 1.0 within 1e-10, every
\* entry lies in [0, 1], and a row of equal inputs yields the uniform
\* distribution 1/n.
C8_SoftmaxRowsSumToOne ==
    (IsSoftmax /\ apc = "returned") =>
        \A i \in 1..Len(aout.data) :
            Len(ax.data[i]) > 0 =>
                /\ Len(aout.data[i]) = Len(ax.data[i])
                /\ SumsToOne(aout.data[i])
                /\ \A j \in 1..Len(aout.data[i]) : InUnitInterval(aout.data[i][j])
                /\ AllEqual(ax.data[i]) =>
                      \A j \in 1..Len(aout.data[i]) :
                          aout.data[i][j] = Fin(Unit, [k \in {0} |-> Len(ax.data[i])])

C8_Witness ==
    /\ IsSoftmax /\ apc = "returned"
    /\ ax.data = <<<<1, 1, 1>>, <<1, 1, 1>>>>
    /\ SumsToOne(aout.data[2])
    /\ aout.data[2][3] = Fin(Unit, [k \in {0} |-> 3])

\* C8 as stated: for every input array x and EVERY row of softmax(x) the
\* entries sum to 1.0 within 1e-10 and lie in [0, 1].
C8_Original ==
    (IsSoftmax /\ apc = "returned") =>
        \A i \in 1..Len(aout.data) :
            /\ SumsToOne(aout.data[i])
            /\ \A j \in 1..Len(aout.data[i]) : InUnitInterval(aout.data[i][j])

MaxOf(row) == CHOOSE m \in {row[j] : j \in 1..Len(row)} : \A j \in 1..Len(row) : row[j] <= m

\* C9: in softmax (both backends), for every non-empty row the argument of
\* exp for each entry is (entry - row maximum): every argument is <= 0 and at
\* least one is 0, so the divisor `sum` is >= 1 (never zero), and the outputs
\* are finite, also for inputs >= 1000.
C9_SoftmaxSubtractsRowMax ==
    IsSoftmax =>
        \A i \in 1..Len(aargs) :
            Len(ax.data[i]) > 0 =>
                /\ Len(aargs[i]) = Len(ax.data[i])
                /\ \A j \in 1..Len(aargs[i]) :
                      /\ aargs[i][j] = ax.data[i][j] - MaxOf(ax.data[i])
                      /\ aargs[i][j] <= 0
                /\ \E j \in 1..Len(aargs[i]) : aargs[i][j] = 0
                /\ asums[i].kind = "fin"
                /\ asums[i].num # EmptyBag
                /\ Dominated(Unit, asums[i].num)
                /\ \A j \in 1..Len(aout.data[i]) : aout.data[i][j].kind = "fin"

C9_Witness ==
    /\ afn = "softmax" /\ apc = "returned"
    /\ ax.data = <<<<1000, 1001, 1002>>>>
    /\ aargs = <<<<-2, -1, 0>>>>
    /\ \A j \in 1..3 : aout.data[1][j].kind = "fin"

\* C10 (as amended): for finite x, sigmoid(x) is never NaN and lies in the
\* CLOSED interval [0, 1]; it is strictly inside (0, 1) for -709 <= x <= 36,
\* but exactly 1.0 for x >= 37 and exactly 0.0 for x <= -710 (f64 rounding
\* and overflow of exp); sigmoid(0) = 0.5; it is applied elementwise.
C10_SigmoidInClosedUnitInterval ==
    (IsSigmoid /\ apc = "returned") =>
        /\ Len(aout.data) = Len(ax.data)
        /\ \A i \in 1..Len(ax.data) :
            /\ Len(aout.data[i]) = Len(ax.data[i])
            /\ \A j \in 1..Len(ax.data[i]) :
                LET v == ax.data[i][j]
                    y == aout.data[i][j]
                IN  /\ y.kind = "fin"
                    /\ InUnitInterval(y)
                    /\ (-709 <= v /\ v <= 36) => StrictlyInside(y)
                    /\ v >= 37 => y = FOne
                    /\ v <= -710 => y = FZero
                    /\ v = 0 => IsHalf(y)

C10_Witness ==
    /\ IsSigmoid /\ apc = "returned"
    /\ ax.data = <<<<0, 1>>, <<-800, -799>>>>
    /\ IsHalf(aout.data[1][1])
    /\ StrictlyInside(aout.data[1][2])
    /\ aout.data[2][1] = FZero

\* C10 as stated: for all finite x, sigmoid(x) lies strictly inside (0, 1),
\* sigmoid(0) = 0.5 and the result is never NaN.
C10_Original ==
    (IsSigmoid /\ apc = "returned") =>
        \A i \in 1..Len(ax.data) : \A j \in 1..Len(ax.data[i]) :
            /\ StrictlyInside(aout.data[i][j])
            /\ ax.data[i][j] = 0 => IsHalf(aout.data[i][j])

(***************************************************************************)
(*                    Claims about the loss functions                       *)
(***************************************************************************)
SameShapeArr(a, b) == a.rows = b.rows /\ a.cols = b.cols

\* exactly one entry of the row is 1.0 and all others are 0.0
IsOneHotRow(row) ==
    /\ Cardinality({j \in 1..Len(row) : row[j] = 10}) = 1
    /\ \A j \in 1..Len(row) : row[j] \in {0, 10}
IsOneHot(a) == \A i \in 1..a.rows : IsOneHotRow(a.data[i])
HotIndex(row) == CHOOSE j \in 1..Len(row) : row[j] = 10

\* every entry of a is >= 0, so that ln(entry + 1e-7) is a number
NonNegative(a) == \A i \in 1..a.rows : \A j \in 1..a.cols : a.data[i][j] >= 0

\* two returned losses are the same number: num1 / den1 = num2 / den2,
\* atom by atom
SameLoss(u, v) ==
    /\ u.st = "returned" /\ v.st = "returned"
    /\ u.kind = "fin" /\ v.kind = "fin"
    /\ DOMAIN u.num = DOMAIN v.num
    /\ \A a \in DOMAIN u.num : u.num[a] * v.den = v.num[a] * u.den

\* -(1/rows) * sum over rows of ln(y[row][hot index] + 1e-7)
HotLoss(y, tg) ==
    Returned("fin",
             [a \in Atoms(y) |->
                 0 - Cardinality({i \in 1..y.rows : y.data[i][HotIndex(tg.data[i])] = a})],
             y.rows)

\* C11 (as amended): whenever y and t have the same shape with AT LEAST ONE
\* ROW, every row of t is one-hot and NO ENTRY OF y IS NEGATIVE,
\* cross_entropy_error_optimized(y, t) and cross_entropy_error(y, t) return
\* the same number: -(1/rows) * sum over rows of ln(y[row][hot index] + 1e-7).
C11_CrossEntropyVariantsAgree ==
    (/\ lce.st # "none" /\ lopt.st # "none"
     /\ SameShapeArr(ly, lt) /\ IsOneHot(lt)
     /\ ly.rows > 0 /\ NonNegative(ly)) =>
        /\ SameLoss(lopt, lce)
        /\ SameLoss(lopt, HotLoss(ly, lt))
        /\ SameLoss(lce, HotLoss(ly, lt))

C11_Witness ==
    /\ ly = TestY /\ lt = TestT
    /\ SameLoss(lopt, lce)
    /\ lopt.num = [a \in {1, 2, 8, 9} |-> IF a \in {8, 9} THEN -1 ELSE 0]
    /\ lopt.den = 2

\* C11 as stated: whenever y and t have the same shape and every row of t is
\* one-hot, the two functions return values that agree within 1e-10.
C11_Original ==
    (/\ lce.st # "none" /\ lopt.st # "none"
     /\ SameShapeArr(ly, lt) /\ IsOneHot(lt)) =>
        SameLoss(lopt, lce)

RECURSIVE SumSqErr(_, _, _)
\* the sum over the first q entries (row-major) of (y - t)^2, in hundredths
SumSqErr(y, tg, q) ==
    IF q = 0 THEN 0
    ELSE LET i == ((q - 1) \div y.cols) + 1
             j == ((q - 1) % y.cols) + 1
         IN  SumSqErr(y, tg, q - 1)
                + (y.data[i][j] - tg.data[i][j]) * (y.data[i][j] - tg.data[i][j])

\* C12: for non-empty y and t of the same shape mean_squared_error(y, t)
\* returns the mean over all entries of (y - t)^2, and
\* mean_squared_error(y, y) is 0.
C12_MseIsMeanOfSquares ==
    (lmse.st # "none" /\ SameShapeArr(ly, lt) /\ ly.rows * ly.cols > 0) =>
        /\ lmse.st = "returned"
        /\ lmse.kind = "fin"
        /\ lmse.den > 0
        /\ lmse.num * (100 * ly.rows * ly.cols)
              = SumSqErr(ly, lt, ly.rows * ly.cols) * lmse.den
        /\ ly = lt => lmse.num = 0

\* the test's arrays: (0.01 + 0.01 + 0.04 + 0.04) / 4
C12_Witness ==
    /\ ly = TestY /\ lt = TestT
    /\ lmse.st = "returned" /\ lmse.num = 10 /\ lmse.den = 400

\* mean_squared_error(y, y) on a non-empty y
C12_WitnessSelf ==
    /\ ly = lt /\ ly.rows = 2 /\ ly.cols = 2
    /\ lmse.st = "returned" /\ lmse.num = 0

\* C13: mean_squared_error(y, t) fails whenever the shapes of y and t
\* differ (also when one of them has a single row or column) and returns no
\* loss value.
C13_MseRejectsShapeMismatch ==
    (lmse.st # "none" /\ ~SameShapeArr(ly, lt)) => lmse.st = "panicked"

\* C14: cross_entropy_error(y, t) fails whenever the shapes of y and t
\* differ (also when one of them has a single row or column) and returns no
\* loss value.
C14_CrossEntropyRejectsShapeMismatch ==
    (lce.st # "none" /\ ~SameShapeArr(ly, lt)) => lce.st = "panicked"

(***************************************************************************)
(*                    Claims about the two-layer network                    *)
(***************************************************************************)
\* predict has been called on a constructed network
PredictCalled ==
    /\ net.backend # "none"
    /\ nx # NoMatrix
    /\ npc \in {"nd_z1", "nd_a2", "nd_softmax", "mx_z1", "mx_a2", "mx_softmax",
                "returned", "panicked"}

\* the array has `r` rows of `c` entries each and says so
HasShape(a, r, c) ==
    /\ a.rows = r /\ a.cols = c
    /\ Len(a.data) = r
    /\ \A i \in 1..Len(a.data) : Len(a.data[i]) = c

\* C15: for a network built with new(input, hidden, output), of either
\* backend, predict(x) does not fail and returns an array of shape
\* (x.rows, output) when x.cols = input (= w1.rows), for every batch size;
\* when x.cols # w1.rows it fails in its first statement and there is no output.
C15_PredictShapeOrFail ==
    PredictCalled =>
        /\ nx.cols = net.w1.rows =>
              /\ npc # "panicked"
              /\ npc = "returned" => HasShape(nout, nx.rows, net.output_size)
        /\ nx.cols # net.w1.rows => (npc = "panicked" /\ nout = NoMatrix)

\* C16: after new(input, hidden, output) and after any number of training
\* steps the parameters have the shapes w1: input x hidden, b1: 1 x hidden,
\* w2: hidden x output, b2: 1 x output, so that w1.cols = b1.cols = w2.rows
\* and w2.cols = b2.cols; b1 and b2 are all zeros right after construction.
C16_ParameterShapesKept ==
    net.backend # "none" =>
        /\ npc # "train_panicked"
        /\ HasShape(net.w1, net.input_size, net.hidden_size)
        /\ HasShape(net.b1, 1, net.hidden_size)
        /\ HasShape(net.w2, net.hidden_size, net.output_size)
        /\ HasShape(net.b2, 1, net.output_size)
        /\ net.w1.cols = net.b1.cols /\ net.b1.cols = net.w2.rows
        /\ net.w2.cols = net.b2.cols
        /\ net.updates = <<0, 0, 0, 0>> =>
              /\ \A j \in 1..net.b1.cols : net.b1.data[1][j] = Param(0)
              /\ \A j \in 1..net.b2.cols : net.b2.data[1][j] = Param(0)

\* train_example's network after its five steps
C16_Witness ==
    /\ npc = "trained" /\ nstep = TrainSteps
    /\ net.input_size = 2 /\ net.hidden_size = 3 /\ net.output_size = 2
    /\ net.updates = <<5, 5, 5, 5>>
    /\ HasShape(net.w1, 2, 3) /\ HasShape(net.b1, 1, 3)
    /\ HasShape(net.w2, 3, 2) /\ HasShape(net.b2, 1, 2)
    /\ Len(net.b1.data[1][3].sub) = 5

\* ---- Matrix values and their storage -------------------------------------------
\* the last operation was `name` and it has just ended (returned or panicked)
JustEnded(name) == hop = name /\ hpc \in {"returned", "panicked"}

\* the entries the last map was asked to produce: func of every entry of the
\* receiver as it was at the call
MappedEntries ==
    [i \in 1..Len(hsnap.a.data) |-> [j \in 1..Len(hsnap.a.data[i]) |->
        ApplyFn(hcalls.fn, hsnap.a.data[i][j])]]

\* C17: Matrix::map(f) returns a new matrix of the same shape as the receiver
\* in which entry (i,j) equals f(receiver[i][j]) for every position, with f
\* applied to each entry exactly once.
C17_MapAppliesFnEverywhere ==
    JustEnded("map") =>
        /\ hpc = "returned"
        /\ Shape(hres) = Shape(hsnap.a)
        /\ Load(heap, hres).data = MappedEntries
        /\ hcalls.args = Flatten(hsnap.a.data)

\* the cells that hold the rows of m
Cells(m) == {m.data[i] : i \in 1..Len(m.data)}

\* C18: dot, add and map leave their operands unchanged and share no storage
\* with them: after the call, and after an entry of the result has been
\* overwritten, a and b have the shape and the entries they had at the call,
\* and no row of the result is a row of a or of b.
C18_OperandsUntouched ==
    (hop \in {"dot", "add", "map"} /\ hpc \in {"returned", "panicked", "mutated"}) =>
        /\ Load(heap, ha) = hsnap.a
        /\ Load(heap, hb) = hsnap.b
        /\ Cells(hres) \cap (Cells(ha) \cup Cells(hb)) = {}

\* an entry of the sum a.add(&b) of two matrices with entries was overwritten
C18_Witness ==
    /\ hop = "add" /\ hpc = "mutated"
    /\ hsnap.a.rows > 0 /\ hsnap.a.cols > 0
    /\ Load(heap, hres).data # [i \in 1..hsnap.a.rows |-> AddedRow(hsnap.a, hsnap.b, i, ~SameShape(hsnap.a, hsnap.b))]

\* every row of m, read from the storage, has m.cols entries
RowsMatchCols(m) ==
    \A i \in 1..Len(m.data) : Len(heap[m.data[i]]) = m.cols

\* C19: Matrix::from_vec validates its input: given rows of unequal length it
\* signals an error instead of building a matrix, and it never returns a
\* Matrix whose cols field disagrees with the length of one of its rows.
\* (from_vec moves its argument into the Matrix, so the rows of a returned
\* Matrix are the rows it was given.)
C19_FromVecValidates ==
    (hop = "from_vec" /\ hpc = "returned") =>
        /\ ~IsRagged(Load(heap, hres).data)
        /\ RowsMatchCols(hres)

\* m is rectangular and self-consistent: data has m.rows rows, every row has
\* m.cols entries, and shape() returns (rows, cols)
Rectangular(m) ==
    /\ Len(m.data) = m.rows
    /\ RowsMatchCols(m)
    /\ Shape(Load(heap, m)) = <<m.rows, m.cols>>

\* C20: every Matrix produced by any sequence of new, from_vec (given
\* equal-length rows), dot, add and map is rectangular and self-consistent:
\* data has exactly `rows` rows, every row has exactly `cols` entries, and
\* shape() returns (rows, cols).
C20_MatricesRectangular ==
    ~hsnap.ragged =>
        \A m \in {ha, hb, hres} : m # NoMatrix => Rectangular(m)

\* the third operation of a sequence without ragged input returned a matrix
\* with entries, computed from two earlier results
C20_Witness ==
    /\ ~hsnap.ragged
    /\ hn = MaxOps /\ hpc = "returned" /\ hop \in {"dot", "add"}
    /\ hres.rows > 0 /\ hres.cols > 0

\* C21: Matrix::new(rows, cols, fill) never fails for any rows >= 0 and
\* cols >= 0 (including zero) and returns a matrix of shape (rows, cols) in
\* which every entry equals fill.
C21_NewNeverFails ==
    JustEnded("new") =>
        LET rows == hcalls.args[1]
            cols == hcalls.args[2]
            fill == hcalls.args[3]
            m == Load(heap, hres)
        IN  /\ hpc = "returned"
            /\ Shape(m) = <<rows, cols>>
            /\ Len(m.data) = rows
            /\ \A i \in 1..Len(m.data) :
                  /\ Len(m.data[i]) = cols
                  /\ \A j \in 1..Len(m.data[i]) : m.data[i][j] = fill

\* new was called with no rows but some columns
C21_Witness ==
    /\ JustEnded("new") /\ hpc = "returned"
    /\ hcalls.args[1] = 0 /\ hcalls.args[2] > 0

\* ---- empty matrices ---------------------------------------------------------
\* C29: map and the Matrix activations preserve shape for every matrix,
\* including empty ones: for m = Matrix::new(rows, cols, v) with rows = 0 or
\* cols = 0, sigmoid_matrix(m) (which is m.map) and softmax_matrix(m) complete
\* without failure and return a matrix of shape (rows, cols).
C29_EmptyMatricesKeepShape ==
    (/\ afn \in {"sigmoid_matrix", "softmax_matrix"}
     /\ apc \in {"returned", "panicked"}
     /\ (ax.rows = 0 \/ ax.cols = 0)) =>
        /\ apc = "returned"
        /\ Shape(aout) = Shape(ax)

\* ---- the optimized cross-entropy ------------------------------------------------
\* C30: cross_entropy_error_optimized(y, t) detects a shape mismatch eagerly:
\* when y and t differ in row count or column count it fails with a shape
\* error and never returns a loss computed over only the overlapping rows and
\* columns of the two inputs.
C30_OptimizedRejectsShapeMismatch ==
    (lopt.st # "none" /\ ~SameShapeArr(ly, lt)) => lopt.st = "panicked"

\* ---- the loop of numerical_gradient -----------------------------------------
\* every index of an array of `shape`: (i) for one axis, (i, j) for two
Indices(shape) ==
    IF Len(shape) = 1 THEN {<<i>> : i \in 0..(shape[1] - 1)}
    ELSE {<<i, j>> : i \in 0..(shape[1] - 1), j \in 0..(shape[2] - 1)}

\* a comes before b in row-major order
RowMajorBefore(a, b) ==
    IF Len(a) = 1 THEN a[1] < b[1]
    ELSE a[1] < b[1] \/ (a[1] = b[1] /\ a[2] < b[2])

\* the entry of an array of `shape` at index i, in its row-major data
EntryPos(shape, i) == IF Len(shape) = 1 THEN i[1] + 1 ELSE i[1] * shape[2] + i[2] + 1

\* what holds while and after the loop runs
LoopBookkeeping ==
    gpc \in {"loop", "returned"} =>
        \* indices come in row-major order, none twice
        /\ \A m \in 1..Len(visited) : visited[m] \in Indices(x0.shape)
        /\ \A m \in 1..Len(visited) : \A n \in 1..Len(visited) :
              m < n => RowMajorBefore(visited[m], visited[n])
        \* f is called twice per index, first at +h, then at -h
        /\ Len(calls) = 2 * Len(visited)
        /\ \A n \in 1..Len(visited) :
              LET q == EntryPos(x0.shape, visited[n])
              IN  /\ calls[2 * n - 1] = Bump(x0, q, 1)
                  /\ calls[2 * n] = Bump(x0, q, -1)
        \* the entries of grad not yet reached are the zeros of Array::zeros
        /\ \A i \in Indices(x0.shape) :
              (\A n \in 1..Len(visited) : visited[n] # i) =>
                  grad.data[EntryPos(x0.shape, i)] = QZero
        \* at the return every index was visited
        /\ gpc = "returned" =>
              /\ Len(visited) = Size(x0)
              /\ {visited[n] : n \in 1..Len(visited)} = Indices(x0.shape)
              /\ Size(x0) = 0 => (grad.data = <<>> /\ calls = <<>>)

\* C27: numerical_gradient on an array with N entries visits every index
\* exactly once in row-major order, evaluates f exactly 2N times (for each
\* index first at +h, then at -h), writes each grad entry exactly once, and
\* then terminates; for N = 0 it returns an empty array without ever calling f.
C27_GradLoopVisitsEachIndexOnce ==
    /\ []LoopBookkeeping
    /\ <>(gpc = "returned")

\* a 2 x 2 array: four indices, eight calls of f
C27_Witness ==
    /\ gpc = "returned" /\ x0.shape = <<2, 2>>
    /\ visited = <<<<0, 0>>, <<0, 1>>, <<1, 0>>, <<1, 1>>>>
    /\ Len(calls) = 8

\* an array without entries: returned, f never called
C27_WitnessEmpty ==
    /\ gpc = "returned" /\ x0.shape = <<0, 2>> /\ calls = <<>> /\ grad.data = <<>>

(***************************************************************************)
(*                    Claims about the perceptron gates                     *)
(***************************************************************************)
\* 0.0 / 1.0 read as a truth value, and back
Truth(v) == v = One
Bit(b) == IF b THEN One ELSE Zero
BooleanArgs == gin[1] \in {Zero, One} /\ gin[2] \in {Zero, One}

\* C24: for all inputs x1, x2 in {0, 1}, the perceptron gates return the
\* Boolean truth tables as 0.0/1.0: and_gate = x1 AND x2, nand_gate =
\* NOT(x1 AND x2), or_gate = x1 OR x2, and xor_gate = x1 XOR x2, where
\* xor_gate is computed as and_gate(nand_gate(x1,x2), or_gate(x1,x2)).
C24_GatesAreTruthTables ==
    BooleanArgs =>
        LET a == Truth(gin[1])
            b == Truth(gin[2])
        IN  /\ HasReturned("and") => gout["and"] = Bit(a /\ b)
            /\ HasReturned("nand") => gout["nand"] = Bit(~(a /\ b))
            /\ HasReturned("or") => gout["or"] = Bit(a \/ b)
            /\ HasReturned("xor") => gout["xor"] = Bit(a # b)
            /\ gxs.pc \in {"s1", "s2", "returned"} => gxs.s[1] = Bit(~(a /\ b))
            /\ gxs.pc \in {"s2", "returned"} => gxs.s[2] = Bit(a \/ b)
            /\ gxs.pc = "returned" =>
                  /\ HasReturned("xor")
                  /\ gout["xor"] = Bit(Truth(gxs.s[1]) /\ Truth(gxs.s[2]))

\* all four gates have returned for x1 = 1, x2 = 0
C24_Witness ==
    /\ gin = <<One, Zero>>
    /\ DOMAIN gout = {"and", "nand", "or", "xor"}
    /\ gout["and"] = Zero /\ gout["nand"] = One /\ gout["or"] = One
    /\ gout["xor"] = One

(***************************************************************************)
(*                    Claims about the MNIST loader                         *)
(***************************************************************************)
\* the file holds its k-th 32-bit field (k = 0 is the magic), and the
\* value of the field, most significant byte first
HasField(k) == Len(mfile) >= 4 * k + 4
Field(k) ==
    ((mfile[4 * k + 1] * 256 + mfile[4 * k + 2]) * 256 + mfile[4 * k + 3]) * 256
    + mfile[4 * k + 4]

\* the bytes first + 1 .. first + n of the file
Bytes(first, n) == [q \in 1..n |-> mfile[first + q]]

Loaded(fn) == mfn = fn /\ mres.st # "none"

\* C22: the MNIST loader returns an array only after validation: load_images
\* returns Ok only if the header magic is 0x00000803 and the declared rows
\* and cols are both 28, returning InvalidMagicNumber for a wrong magic
\* (checked first, before the dimensions are read) and InvalidDimensions for
\* wrong dimensions; load_labels returns Ok only if the magic is 0x00000801,
\* else InvalidMagicNumber; a stream shorter than the declared payload yields
\* an I/O error, never a shorter array.
C22_LoaderValidates ==
    /\ Loaded("load_images") =>
          /\ mres.st = "Ok" =>
                /\ HasField(3)
                /\ Field(0) = 2051 /\ Field(2) = 28 /\ Field(3) = 28
                /\ Len(mfile) >= 16 + Field(1) * 784
                /\ mres.shape = <<Field(1), 784>>
                /\ mres.data = Bytes(16, Field(1) * 784)
          /\ (HasField(0) /\ Field(0) # 2051) =>
                (mres = Err("InvalidMagicNumber") /\ mpos = 4)
          /\ (HasField(3) /\ Field(0) = 2051
                /\ (Field(2) # 28 \/ Field(3) # 28)) =>
                mres = Err("InvalidDimensions")
          /\ (HasField(3) /\ Field(0) = 2051 /\ Field(2) = 28 /\ Field(3) = 28
                /\ Len(mfile) < 16 + Field(1) * 784) =>
                mres = Err("IoError")
          /\ (~HasField(0) \/ (Field(0) = 2051 /\ ~HasField(3))) =>
                mres = Err("IoError")
    /\ Loaded("load_labels") =>
          /\ mres.st = "Ok" =>
                /\ HasField(1)
                /\ Field(0) = 2049
                /\ Len(mfile) >= 8 + Field(1)
                /\ mres.shape = <<Field(1)>>
                /\ mres.data = Bytes(8, Field(1))
          /\ (HasField(0) /\ Field(0) # 2049) =>
                (mres = Err("InvalidMagicNumber") /\ mpos = 4)
          /\ (HasField(0) /\ Field(0) = 2049
                /\ (~HasField(1) \/ Len(mfile) < 8 + Field(1))) =>
                mres = Err("IoError")
          /\ ~HasField(0) => mres = Err("IoError")

\* an image file that declares two images and ends one byte early
C22_Witness ==
    /\ Loaded("load_images") /\ mres = Err("IoError")
    /\ HasField(3)
    /\ Field(0) = 2051 /\ Field(1) = 2 /\ Field(2) = 28 /\ Field(3) = 28
    /\ Len(mfile) = 16 + 2 * 784 - 1

\* a complete image file: the array holds every declared pixel
C22_WitnessOk ==
    /\ Loaded("load_images") /\ mres.st = "Ok" /\ mres.shape = <<2, 784>>

\* the labels handed to labels_to_one_hot
OneHotLabels == mres.data
ValidLabels == \A i \in 1..Len(OneHotLabels) : OneHotLabels[i] \in 0..9

\* C23: labels_to_one_hot(labels) returns an array of shape (labels.len(), 10)
\* in which row i holds 1.0 at column labels[i] and 0.0 everywhere else, so
\* every row contains exactly one 1.0 and sums to 1, for every sequence of
\* labels in 0..=9.
C23_OneHotRows ==
    (mpc \in {"one_hot", "one_hot_returned", "panicked"} /\ ValidLabels) =>
        /\ mpc # "panicked"
        /\ mpc = "one_hot_returned" =>
              /\ moh.rows = Len(OneHotLabels) /\ moh.cols = 10
              /\ Len(moh.data) = Len(OneHotLabels)
              /\ \A i \in 1..Len(moh.data) :
                    /\ Len(moh.data[i]) = 10
                    /\ \A j \in 1..10 :
                          moh.data[i][j] = IF j - 1 = OneHotLabels[i] THEN 1 ELSE 0
                    /\ Cardinality({j \in 1..10 : moh.data[i][j] = 1}) = 1
                    /\ SumSeq(moh.data[i]) = 1

\* three labels, the largest and the smallest among them
C23_Witness ==
    /\ mpc = "one_hot_returned"
    /\ OneHotLabels = <<9, 0, 1>>
    /\ moh.data[1][10] = 1 /\ moh.data[2][1] = 1 /\ moh.data[3][2] = 1

(***************************************************************************)
(*                    Claims about the training loop                        *)
(***************************************************************************)
ParamNames == {"w1", "b1", "w2", "b2"}
InTraining ==
    npc \in {"loss_before", "grad_w1", "grad_b1", "grad_w2", "grad_b2",
             "update_w1", "update_b1", "update_w2", "update_b2", "next_step",
             "trained"}
ComputingGradients == npc \in {"grad_w1", "grad_b1", "grad_w2", "grad_b2"}

\* every parameter has been updated k times
AllUpdated(k) == <<k, k, k, k>>

\* the central difference of the loss in entry (i, j) of parameter `name`,
\* taken in step k at the parameters that step began with
GradientAtStepStart(name, i, j, k) ==
    [param |-> name, idx |-> <<i, j>>, step |-> k, seen |-> AllUpdated(k)]

\* what holds at every point of the training loop
TrainingOrder ==
    InTraining =>
        \* a fixed number of steps
        /\ nstep <= TrainSteps
        /\ npc = "trained" => (nstep = TrainSteps /\ net.updates = AllUpdated(TrainSteps))
        \* every gradient of the step was computed at the pre-update values
        /\ \A name \in ParamNames :
              ngrad[name] # NoMatrix =>
                 /\ Shape(ngrad[name]) = Shape(net[name])
                 /\ \A i \in 1..ngrad[name].rows : \A j \in 1..ngrad[name].cols :
                       ngrad[name].data[i][j] = GradientAtStepStart(name, i, j, nstep)
        \* no parameter is updated before all four gradients exist
        /\ net.updates # AllUpdated(nstep) =>
              \A name \in ParamNames : ngrad[name] # NoMatrix
        \* every parameter is its initial value with one gradient, its own,
        \* subtracted per update
        /\ \A name \in ParamNames :
              \A i \in 1..net[name].rows : \A j \in 1..net[name].cols :
                 LET e == net[name].data[i][j]
                 IN  /\ Len(e.sub) = net.updates[ParamIndex(name)]
                     /\ \A k \in 1..Len(e.sub) :
                           e.sub[k] = GradientAtStepStart(name, i, j, k - 1)

\* computing a gradient leaves the live network as it is
GradientsLeaveNet == ComputingGradients => net' = net

\* C26: in each training step all four gradients (w1, b1, w2, b2) are
\* computed against the same pre-update parameter values - no parameter is
\* updated until all four gradients exist, and computing a gradient leaves
\* the live network unmodified - and then every parameter p becomes
\* p - 0.1 * grad_p; the loop runs a fixed number of steps with no
\* convergence check and then stops.
C26_GradientsBeforeUpdates ==
    /\ []TrainingOrder
    /\ [][GradientsLeaveNet]_vars

\* train_example's network in its third step, w1 and b1 updated, w2 and b2
\* not yet
C26_Witness ==
    /\ npc = "update_w2" /\ nstep = 2
    /\ net.input_size = 2 /\ net.hidden_size = 3 /\ net.output_size = 2
    /\ net.updates = <<3, 3, 2, 2>>
    /\ ngrad.b2.data[1][2] = GradientAtStepStart("b2", 1, 2, 2)

(***************************************************************************)
(*                    Claims about the two backends                         *)
(***************************************************************************)
\* C28: the two backends are interchangeable for the forward pass: for
\* identical parameters (w1, b1, w2, b2) satisfying the shape invariant and
\* identical input x with x.cols == w1.rows, SimpleNetMatrix::predict and
\* SimpleNet::predict both compute softmax(sigmoid(x*w1 + b1)*w2 + b2), with
\* the biases row-broadcast, in that order of steps, and return equal
\* outputs of equal shape.
C28_BackendsInterchangeable ==
    (/\ net.backend = "matrix" /\ npc \in {"returned", "panicked"}
     /\ nx.cols = net.w1.rows) =>
        /\ NdPredict(net, nx) # NoMatrix
        /\ npc = "returned"
        /\ Shape(nout) = Shape(NdPredict(net, nx))
        /\ nout = NdPredict(net, nx)

=============================================================================
